---- MODULE Spec2Model ----
(***************************************************************************)
(* Audience Multiplayer: the background service worker's session engine.   *)
(* The phase state machine (state.js), the submission/vote ledger          *)
(* (voting.js), the pausable timers (pause.js), the combine step           *)
(* (voting.js, openrouter.js) and the handlers that compose them           *)
(* (index.js), run on a single-threaded event loop.                        *)
(***************************************************************************)
EXTENDS Integers, Sequences, FiniteSets, TLC

\* ------------------------------------------------------------------------
\* Bounds of the model
\* ------------------------------------------------------------------------
\* Date.now() runs from 0 to MaxTime (ms) and advances in multiples of TickMs.
MaxTime == 25000
TickMs == 20000
\* debug mode appends without limit: the ledger is capped at MaxSubs entries.
MaxSubs == 2
\* debug mode counts repeated votes without limit: capped at MaxDebugVotes.
MaxDebugVotes == 3
\* the largest ledger of the merge specification fills MaxBatches batches
MaxBatches == 3

\* ------------------------------------------------------------------------
\* Program constants
\* ------------------------------------------------------------------------
MAX_SUBMISSION_LENGTH == 200
MIN_VOTE_DURATION_SECONDS == 5
MIN_AUTO_REPEAT_SECONDS == 20
tokensPerSubmission == 50
targetBatchTokens == 16000

\* null / undefined of a number-or-null field.
NULL == -1
\* JavaScript truthiness of a number-or-null value: null, undefined and 0
\* are falsy.
Truthy(x) == x # NULL /\ x # 0

Max(a, b) == IF a >= b THEN a ELSE b

\* ------------------------------------------------------------------------
\* Strings are sequences of one-character strings.
\* ------------------------------------------------------------------------
UpperAlpha == <<"A", "B", "C", "D", "E", "F", "G", "H", "I", "J", "K", "L", "M",
                "N", "O", "P", "Q", "R", "S", "T", "U", "V", "W", "X", "Y", "Z">>
LowerAlpha == <<"a", "b", "c", "d", "e", "f", "g", "h", "i", "j", "k", "l", "m",
                "n", "o", "p", "q", "r", "s", "t", "u", "v", "w", "x", "y", "z">>
Digits == {"0", "1", "2", "3", "4", "5", "6", "7", "8", "9"}

toLowerCaseChar(c) ==
  IF \E i \in 1..26 : UpperAlpha[i] = c
  THEN LowerAlpha[CHOOSE i \in 1..26 : UpperAlpha[i] = c]
  ELSE c

\* String.prototype.toLowerCase
toLowerCase(str) == [i \in 1..Len(str) |-> toLowerCaseChar(str[i])]

\* \s of a regular expression (the white space that occurs in chat lines)
IsSpace(c) == c \in {" ", "\t"}
\* \w of a regular expression
IsWord(c) ==
  \/ \E i \in 1..26 : UpperAlpha[i] = c \/ LowerAlpha[i] = c
  \/ c \in Digits
  \/ c = "_"

\* String.prototype.trim
trim(str) ==
  LET nonSpace == {i \in 1..Len(str) : ~IsSpace(str[i])}
  IN IF nonSpace = {} THEN <<>>
     ELSE LET first == CHOOSE i \in nonSpace : \A j \in nonSpace : i <= j
              last == CHOOSE i \in nonSpace : \A j \in nonSpace : i >= j
          IN SubSeq(str, first, last)

\* text.match(/^(?:\+1\s+@(\w+)|@(\w+)\s+\+1)$/i): the captured user name,
\* or <<>> when the text does not match (a capture is never empty).
voteMatch(text) ==
  LET n == Len(text)
      \* +1\s+@(\w+) with the @ at position k
      plusFirst == {k \in 4..(n - 1) :
                      /\ text[1] = "+" /\ text[2] = "1"
                      /\ \A i \in 3..(k - 1) : IsSpace(text[i])
                      /\ text[k] = "@"
                      /\ \A i \in (k + 1)..n : IsWord(text[i])}
      \* @(\w+)\s+\+1 with the name ending at position k
      nameFirst == {k \in 2..(n - 3) :
                      /\ text[1] = "@"
                      /\ \A i \in 2..k : IsWord(text[i])
                      /\ \A i \in (k + 1)..(n - 2) : IsSpace(text[i])
                      /\ text[n - 1] = "+" /\ text[n] = "1"}
  IN IF plusFirst # {} THEN SubSeq(text, (CHOOSE k \in plusFirst : TRUE) + 1, n)
     ELSE IF nameFirst # {} THEN SubSeq(text, 2, CHOOSE k \in nameFirst : TRUE)
     ELSE <<>>

\* text.match(/^>\s*(.+)$/): TRUE when the text matches.
submissionMatches(text) == Len(text) >= 2 /\ text[1] = ">"
\* submissionMatch[1].trim(): \s* is greedy and (.+) takes the rest, so the
\* trimmed capture is the trimmed remainder of the line.
submissionCapture(text) == trim(SubSeq(text, 2, Len(text)))


\* ------------------------------------------------------------------------
\* The world the handlers run in.  A world record w holds
\*   st        the State object of the service worker (state.js),
\*   timeouts  the browser's pending setTimeout callbacks,
\*   task      the suspended combineAndSubmit() call, if any,
\*   sent      the chat messages handed to sendTwitchMessage in this cycle,
\*   aidCalls  the texts handed to submitToAID in this cycle,
\*   llmCalls  the number of callOpenRouter calls issued in this cycle,
\*   ui        the last snapshot handed to broadcastState.
\* Handlers are operators from worlds to worlds; t is Date.now().
\* ------------------------------------------------------------------------
VARIABLES state, timeouts, task, sent, aidCalls, llmCalls, ui, now

vars == <<state, timeouts, task, sent, aidCalls, llmCalls, ui, now>>

World == [st |-> state, timeouts |-> timeouts, task |-> task, sent |-> sent,
          aidCalls |-> aidCalls, llmCalls |-> llmCalls, ui |-> ui]

\* A handler ran to completion and left the world w.
Commit(w) ==
  \E r \in {w} :
    /\ state' = r.st
    /\ timeouts' = r.timeouts
    /\ task' = r.task
    /\ sent' = r.sent
    /\ aidCalls' = r.aidCalls
    /\ llmCalls' = r.llmCalls
    /\ ui' = r.ui

\* No combineAndSubmit() call is suspended.
NoTask == [pc |-> "none", mode |-> "none", mostRecentAction |-> <<>>,
           round |-> <<>>, prompts |-> <<>>, pending |-> {}, results |-> <<>>,
           failed |-> {}]

\* No trace of a language-model call (debugInfo: null, lastAICall: null).
NoDebugInfo == [response |-> <<>>, timestamp |-> NULL]

\* ------------------------------------------------------------------------
\* state.js
\* ------------------------------------------------------------------------
createInitialState(config) ==
  [phase |-> "idle",
   submissions |-> <<>>,
   voteTimer |-> NULL,
   autoRepeatTimer |-> NULL,
   voteEndTime |-> NULL,
   nextVoteStartTime |-> NULL,
   isPaused |-> FALSE,
   pausedVoteRemaining |-> NULL,
   pausedAutoRepeatRemaining |-> NULL,
   lastAICall |-> NoDebugInfo,
   config |-> config]

\* clearTimeout(handle): a handle that is not pending is ignored.
clearTimeout(w, handle) ==
  [w EXCEPT !.timeouts = {tm \in @ : tm.id # handle}]

\* The handle setTimeout returns: one that no pending callback has and that
\* the state does not hold.
NewHandle(w) ==
  LET used == {tm.id : tm \in w.timeouts} \cup {w.st.voteTimer, w.st.autoRepeatTimer}
      free == {h \in 1..(Cardinality(used) + 1) : h \notin used}
  IN CHOOSE h \in free : \A g \in free : h <= g

\* setTimeout(callback, delay) at time t, returning handle.
setTimeout(w, handle, callback, delay, t) ==
  [w EXCEPT !.timeouts = @ \cup {[id |-> handle, callback |-> callback, at |-> t + delay]}]

\* Variants of transitionToVote with a slip: entered from any phase; the
\* ledger kept; the ledger cleared before the phase is looked at.
transitionToVote_anyPhase(w) ==
  [ok |-> TRUE, w |-> [w EXCEPT !.st.phase = "vote", !.st.submissions = <<>>]]

transitionToVote_keepsLedger(w) ==
  IF w.st.phase # "idle"
  THEN [ok |-> FALSE, w |-> w]
  ELSE [ok |-> TRUE, w |-> [w EXCEPT !.st.phase = "vote"]]

transitionToVote_clearsLedgerFirst(w) ==
  IF w.st.phase # "idle"
  THEN [ok |-> FALSE, w |-> [w EXCEPT !.st.submissions = <<>>]]
  ELSE [ok |-> TRUE,
        w |-> [w EXCEPT !.st.phase = "vote", !.st.submissions = <<>>]]

transitionToVote(w) ==
  IF w.st.phase # "idle"
  THEN [ok |-> FALSE, w |-> w]
  ELSE [ok |-> TRUE,
        w |-> [w EXCEPT !.st.phase = "vote", !.st.submissions = <<>>]]

\* Variant of transitionToCombine with a slip: the phase is not asked.
transitionToCombine_anyPhase(w) ==
  LET w1 == IF Truthy(w.st.voteTimer)
            THEN [clearTimeout(w, w.st.voteTimer) EXCEPT !.st.voteTimer = NULL]
            ELSE w
  IN [ok |-> TRUE, w |-> [w1 EXCEPT !.st.phase = "combine"]]

\* Variant of transitionToCombine with a slip: the vote timer is left
\* pending.
transitionToCombine_keepsTimer(w) ==
  IF w.st.phase # "vote"
  THEN [ok |-> FALSE, w |-> w]
  ELSE [ok |-> TRUE, w |-> [w EXCEPT !.st.phase = "combine"]]

transitionToCombine(w) ==
  IF w.st.phase # "vote"
  THEN [ok |-> FALSE, w |-> w]
  ELSE LET w1 == IF Truthy(w.st.voteTimer)
                 THEN [clearTimeout(w, w.st.voteTimer) EXCEPT !.st.voteTimer = NULL]
                 ELSE w
       IN [ok |-> TRUE, w |-> [w1 EXCEPT !.st.phase = "combine"]]

\* Variant of transitionToIdle with a slip: the vote deadline is kept.
transitionToIdle_keepsDeadline(w) ==
  LET w1 == IF Truthy(w.st.voteTimer)
            THEN [clearTimeout(w, w.st.voteTimer) EXCEPT !.st.voteTimer = NULL]
            ELSE w
  IN [w1 EXCEPT !.st.phase = "idle"]

transitionToIdle(w) ==
  LET w1 == IF Truthy(w.st.voteTimer)
            THEN [clearTimeout(w, w.st.voteTimer) EXCEPT !.st.voteTimer = NULL]
            ELSE w
  IN [w1 EXCEPT !.st.voteEndTime = NULL, !.st.phase = "idle"]

setAutoRepeatTimer(w, timer) == [w EXCEPT !.st.autoRepeatTimer = timer]

clearAutoRepeatTimer(w) ==
  LET w1 == IF Truthy(w.st.autoRepeatTimer)
            THEN [clearTimeout(w, w.st.autoRepeatTimer) EXCEPT !.st.autoRepeatTimer = NULL]
            ELSE w
  IN [w1 EXCEPT !.st.nextVoteStartTime = NULL]

\* voting.js getVoteCount, also the voteCount of getPublicState
getVoteCount(submission) ==
  IF Truthy(submission.debugVoteCount)
  THEN submission.debugVoteCount
  ELSE Cardinality(submission.votes)

\* The snapshot for the popup (the fields of the session engine).
getPublicState(s) ==
  [phase |-> s.phase,
   submissionCount |-> Len(s.submissions),
   submissions |-> [i \in 1..(IF Len(s.submissions) < 50 THEN Len(s.submissions) ELSE 50) |->
                      [user |-> s.submissions[i].user,
                       text |-> s.submissions[i].text,
                       timestamp |-> s.submissions[i].timestamp,
                       voteCount |-> getVoteCount(s.submissions[i])]],
   lastAICall |-> s.lastAICall,
   voteEndTime |-> s.voteEndTime,
   nextVoteStartTime |-> s.nextVoteStartTime,
   isPaused |-> s.isPaused,
   pausedVoteRemaining |-> s.pausedVoteRemaining,
   pausedAutoRepeatRemaining |-> s.pausedAutoRepeatRemaining,
   config |-> s.config]

\* index.js broadcastState (the world is evaluated once, then snapshotted)
broadcastState(w) ==
  CHOOSE r \in {[x EXCEPT !.ui = getPublicState(x.st)] : x \in {w}} : TRUE

\* index.js sendTwitchMsg: the message, by its kind, is handed to the chat
\* transport.
sendTwitchMsg(w, message) == [w EXCEPT !.sent = Append(@, message)]

\* ------------------------------------------------------------------------
\* voting.js: the ledger
\* ------------------------------------------------------------------------
\* Variant of the lookup with a slip: the names are compared as written.
findSubmission_caseSensitive(submissions, user) ==
  LET hits == {i \in 1..Len(submissions) : submissions[i].user = user}
  IN IF hits = {} THEN 0 ELSE CHOOSE i \in hits : \A j \in hits : i <= j

\* state.submissions.find(s => s.user.toLowerCase() === user.toLowerCase()):
\* the index of the first match, 0 when there is none.
findSubmission(submissions, user) ==
  LET hits == {i \in 1..Len(submissions) :
                 toLowerCase(submissions[i].user) = toLowerCase(user)}
  IN IF hits = {} THEN 0 ELSE CHOOSE i \in hits : \A j \in hits : i <= j

\* Variants of handleSubmission with a slip: no length check; a
\* resubmission starts the voter set afresh; a new entry starts with no
\* voter.
handleSubmission_noSelfVote(w, user, text, debugMode, t) ==
  IF Len(text) = 0 \/ Len(text) > MAX_SUBMISSION_LENGTH
  THEN w
  ELSE LET fresh == [user |-> user, text |-> text, timestamp |-> t,
                     votes |-> {}, debugVoteCount |-> NULL]
           existing == findSubmission(w.st.submissions, user)
       IN IF debugMode \/ existing = 0
          THEN [w EXCEPT !.st.submissions = Append(@, fresh)]
          ELSE [w EXCEPT !.st.submissions[existing].text = text,
                         !.st.submissions[existing].timestamp = t]

handleSubmission_noLengthCheck(w, user, text, debugMode, t) ==
  LET fresh == [user |-> user, text |-> text, timestamp |-> t,
                votes |-> {toLowerCase(user)}, debugVoteCount |-> NULL]
      existing == findSubmission(w.st.submissions, user)
  IN IF debugMode \/ existing = 0
     THEN [w EXCEPT !.st.submissions = Append(@, fresh)]
     ELSE [w EXCEPT !.st.submissions[existing].text = text,
                    !.st.submissions[existing].timestamp = t,
                    !.st.submissions[existing].votes = @ \cup {toLowerCase(user)}]

handleSubmission_resetsVotes(w, user, text, debugMode, t) ==
  IF Len(text) = 0 \/ Len(text) > MAX_SUBMISSION_LENGTH
  THEN w
  ELSE LET fresh == [user |-> user, text |-> text, timestamp |-> t,
                     votes |-> {toLowerCase(user)}, debugVoteCount |-> NULL]
           existing == findSubmission(w.st.submissions, user)
       IN IF debugMode \/ existing = 0
          THEN [w EXCEPT !.st.submissions = Append(@, fresh)]
          ELSE [w EXCEPT !.st.submissions[existing].text = text,
                         !.st.submissions[existing].timestamp = t,
                         !.st.submissions[existing].votes = {toLowerCase(user)}]

handleSubmission(w, user, text, debugMode, t) ==
  IF Len(text) = 0 \/ Len(text) > MAX_SUBMISSION_LENGTH
  THEN w
  ELSE LET fresh == [user |-> user, text |-> text, timestamp |-> t,
                     votes |-> {toLowerCase(user)}, debugVoteCount |-> NULL]
           existing == findSubmission(w.st.submissions, user)
       IN IF debugMode
          THEN [w EXCEPT !.st.submissions = Append(@, fresh)]
          ELSE IF existing # 0
               THEN [w EXCEPT !.st.submissions[existing].text = text,
                              !.st.submissions[existing].timestamp = t,
                              !.st.submissions[existing].votes = @ \cup {toLowerCase(user)}]
               ELSE [w EXCEPT !.st.submissions = Append(@, fresh)]

\* Variants of handleVote with a slip: a repeated vote is counted in normal
\* mode too; the voter's name is kept as written; a vote for a user without
\* a submission is answered in the chat.
handleVote_reportsUnknownTarget(w, voter, targetUser, debugMode) ==
  LET idx == findSubmission(w.st.submissions, targetUser)
  IN IF idx = 0
     THEN sendTwitchMsg(w, "error")
     ELSE LET submission == w.st.submissions[idx]
              alreadyVoted == toLowerCase(voter) \in submission.votes
              added == submission.votes \cup {toLowerCase(voter)}
          IN IF debugMode \/ ~alreadyVoted
             THEN [w EXCEPT !.st.submissions[idx].votes = added,
                            !.st.submissions[idx].debugVoteCount =
                               IF debugMode /\ alreadyVoted
                               THEN (IF Truthy(submission.debugVoteCount)
                                     THEN submission.debugVoteCount
                                     ELSE Cardinality(added)) + 1
                               ELSE @]
             ELSE w

handleVote_countsRepeats(w, voter, targetUser, debugMode) ==
  LET idx == findSubmission(w.st.submissions, targetUser)
  IN IF idx = 0
     THEN w
     ELSE LET submission == w.st.submissions[idx]
              alreadyVoted == toLowerCase(voter) \in submission.votes
              added == submission.votes \cup {toLowerCase(voter)}
          IN [w EXCEPT !.st.submissions[idx].votes = added,
                       !.st.submissions[idx].debugVoteCount =
                          IF alreadyVoted
                          THEN (IF Truthy(submission.debugVoteCount)
                                THEN submission.debugVoteCount
                                ELSE Cardinality(added)) + 1
                          ELSE @]

handleVote_rawName(w, voter, targetUser, debugMode) ==
  LET idx == findSubmission(w.st.submissions, targetUser)
  IN IF idx = 0
     THEN w
     ELSE LET submission == w.st.submissions[idx]
              alreadyVoted == voter \in submission.votes
              added == submission.votes \cup {voter}
          IN IF debugMode \/ ~alreadyVoted
             THEN [w EXCEPT !.st.submissions[idx].votes = added,
                            !.st.submissions[idx].debugVoteCount =
                               IF debugMode /\ alreadyVoted
                               THEN (IF Truthy(submission.debugVoteCount)
                                     THEN submission.debugVoteCount
                                     ELSE Cardinality(added)) + 1
                               ELSE @]
             ELSE w

handleVote(w, voter, targetUser, debugMode) ==
  LET idx == findSubmission(w.st.submissions, targetUser)
  IN IF idx = 0
     THEN w
     ELSE LET submission == w.st.submissions[idx]
              alreadyVoted == toLowerCase(voter) \in submission.votes
              added == submission.votes \cup {toLowerCase(voter)}
          IN IF debugMode \/ ~alreadyVoted
             THEN [w EXCEPT !.st.submissions[idx].votes = added,
                            !.st.submissions[idx].debugVoteCount =
                               IF debugMode /\ alreadyVoted
                               THEN (IF Truthy(submission.debugVoteCount)
                                     THEN submission.debugVoteCount
                                     ELSE Cardinality(added)) + 1
                               ELSE @]
             ELSE w


\* Variant of setVoteTimer with a slip: the delay is not clamped.
setVoteTimer_noClamp(w, t) ==
  LET timer == NewHandle(w)
      w1 == setTimeout(w, timer, "handleEndVote", w.st.config.voteDurationSeconds * 1000, t)
  IN [w1 EXCEPT !.st.voteTimer = timer]

\* setVoteTimer of voting.js: the handle is stored over whatever the state
\* held before.
setVoteTimer(w, t) ==
  LET duration == Max(w.st.config.voteDurationSeconds, MIN_VOTE_DURATION_SECONDS)
      handle == NewHandle(w)
  IN [setTimeout(w, handle, "handleEndVote", duration * 1000, t) EXCEPT !.st.voteTimer = handle]

\* Variant of the comparator with a slip: fewest votes first.
compareSubmissions_ascending(a, b) ==
  LET voteDiff == getVoteCount(a) - getVoteCount(b)
  IN IF voteDiff # 0 THEN voteDiff ELSE b.timestamp - a.timestamp

\* Variant of the comparator with a slip: among equal votes the oldest first.
compareSubmissions_oldestFirst(a, b) ==
  LET voteDiff == getVoteCount(b) - getVoteCount(a)
  IN IF voteDiff # 0 THEN voteDiff ELSE a.timestamp - b.timestamp

\* The comparator of the tally sort: negative when a sorts before b.
compareSubmissions(a, b) ==
  LET voteDiff == getVoteCount(b) - getVoteCount(a)
  IN IF voteDiff # 0 THEN voteDiff ELSE b.timestamp - a.timestamp

\* Variant of the sort with a slip: the ledger is left in insertion order.
sortSubmissions_insertionOrder(submissions) == submissions

\* [...state.submissions].sort(comparator): Array.prototype.sort is stable,
\* so an element moves behind exactly the elements that compare smaller and
\* the equal ones that came before it.
sortSubmissions(submissions) ==
  LET n == Len(submissions)
      before(i) == {j \in 1..n :
                      \/ compareSubmissions(submissions[j], submissions[i]) < 0
                      \/ /\ compareSubmissions(submissions[j], submissions[i]) = 0
                         /\ j < i}
  IN [k \in 1..n |-> submissions[CHOOSE i \in 1..n : Cardinality(before(i)) = k - 1]]

\* ------------------------------------------------------------------------
\* openrouter.js recursiveMerge, and the part of combineSubmissions that
\* follows it
\* ------------------------------------------------------------------------
batchSize == Max(3, targetBatchTokens \div tokensPerSubmission)

\* Variant of the batch count with a slip: a last batch that is not full
\* is left out.
batchCount_floor(n) == IF n <= batchSize THEN 1 ELSE n \div batchSize

\* The batches of one round: the index ranges of the slices.
batchCount(n) == IF n <= batchSize THEN 1 ELSE (n + batchSize - 1) \div batchSize

\* submissions.slice(i, i + batchSize) for i = 0, batchSize, ...: batch k of
\* the round, or the whole list when it fits one batch.
batch(submissions, k) ==
  SubSeq(submissions, (k - 1) * batchSize + 1,
         IF k * batchSize < Len(submissions) THEN k * batchSize ELSE Len(submissions))

\* Variant of buildCombinePrompt with a slip: the list shows the votes.
buildCombinePrompt_withVotes(lastAIOutput, submissions) ==
  [mostRecent |-> lastAIOutput,
   submissionList |-> [i \in 1..Len(submissions) |->
                         <<submissions[i].text, submissions[i].user,
                           submissions[i].votes, submissions[i].debugVoteCount>>]]

\* buildCombinePrompt: the parts of the user prompt that vary within a
\* session, the most recent output (empty for null) and the numbered list of
\* texts and users.
buildCombinePrompt(lastAIOutput, submissions) ==
  [mostRecent |-> lastAIOutput,
   submissionList |-> [i \in 1..Len(submissions) |->
                         <<submissions[i].text, submissions[i].user>>]]

\* The intermediate result of batch idx: user `Batch${idx + 1}`.
intermediateResult(idx, result, t) ==
  [user |-> <<"B", "a", "t", "c", "h", ToString(idx)>>, text |-> result,
   timestamp |-> t, votes |-> {}, debugVoteCount |-> NULL]

\* submitToAID(state, text, sendTwitchMessage) is called and awaited.
callSubmitToAID(w, text) ==
  [w EXCEPT !.aidCalls = Append(@, text), !.task.pc = "awaitSubmit"]

\* combineSubmissions after recursiveMerge returned {result, debugInfo}.
afterMerge(w, combined, debugInfo) ==
  LET w1 == IF debugInfo # NoDebugInfo THEN [w EXCEPT !.st.lastAICall = debugInfo] ELSE w
      label == IF Len(w.st.submissions) = 1 THEN "action" ELSE "combined"
  IN callSubmitToAID(sendTwitchMsg(w1, label), combined)

\* Variant of recursiveMerge with a slip: no base case.
recursiveMerge_noBaseCase(w, submissions, lastAIOutput) ==
  LET nb == batchCount(Len(submissions))
  IN [w EXCEPT !.task.pc = "awaitMerge",
               !.task.mostRecentAction = lastAIOutput,
               !.task.round = submissions,
               !.task.prompts =
                  [k \in 1..nb |->
                     buildCombinePrompt(lastAIOutput, batch(submissions, k))],
               !.task.pending = 1..nb,
               !.task.results = [k \in 1..nb |-> <<>>],
               !.llmCalls = @ + nb]

\* recursiveMerge(config, context, submissions, lastAIOutput) up to its
\* first suspension: one submission returns at once, otherwise one
\* callOpenRouter per batch is issued.
recursiveMerge(w, submissions, lastAIOutput) ==
  IF Len(submissions) = 1
  THEN afterMerge(w, submissions[1].text, NoDebugInfo)
  ELSE LET nb == batchCount(Len(submissions))
       IN [w EXCEPT !.task.pc = "awaitMerge",
                    !.task.mostRecentAction = lastAIOutput,
                    !.task.round = submissions,
                    !.task.prompts =
                       [k \in 1..nb |->
                          buildCombinePrompt(lastAIOutput, batch(submissions, k))],
                    !.task.pending = 1..nb,
                    !.task.results = [k \in 1..nb |-> <<>>],
                    !.llmCalls = @ + nb]

\* Variant of combineSubmissions with a slip: after the notice for an empty
\* ledger the function goes on and submits an empty action.
combineSubmissions_noReturnOnEmpty(w) ==
  IF Len(w.st.submissions) = 0
  THEN callSubmitToAID([sendTwitchMsg(w, "noSubmissions")
                          EXCEPT !.task = [NoTask EXCEPT !.mode = "empty"]], <<>>)
  ELSE IF ~w.st.config.openRouterApiKey
       THEN LET winner == sortSubmissions(w.st.submissions)[1]
                w1 == [w EXCEPT !.task = [NoTask EXCEPT !.mode = "tally"]]
            IN callSubmitToAID(sendTwitchMsg(w1, "winner"), winner.text)
       ELSE [w EXCEPT !.task = [NoTask EXCEPT !.pc = "awaitFetch", !.mode = "blend"]]

\* voting.js combineSubmissions up to its first suspension.
combineSubmissions(w) ==
  IF Len(w.st.submissions) = 0
  THEN [sendTwitchMsg(w, "noSubmissions") EXCEPT !.task = [NoTask EXCEPT !.pc = "resume", !.mode = "empty"]]
  ELSE IF ~w.st.config.openRouterApiKey
       THEN LET winner == sortSubmissions(w.st.submissions)[1]
                w1 == [w EXCEPT !.task = [NoTask EXCEPT !.mode = "tally"]]
            IN callSubmitToAID(sendTwitchMsg(w1, "winner"), winner.text)
       ELSE [w EXCEPT !.task = [NoTask EXCEPT !.pc = "awaitFetch", !.mode = "blend"]]

\* ------------------------------------------------------------------------
\* index.js
\* ------------------------------------------------------------------------
\* combineAndSubmit() up to its first suspension.
combineAndSubmit(w) == combineSubmissions(w)

\* Variant of handleEndVote with a slip: the merge is started without the
\* transition to combine.
handleEndVote_skipsTransition(w) ==
  LET w1 == [w EXCEPT !.st.pausedVoteRemaining = NULL]
  IN IF w1.st.phase # "vote"
     THEN w1
     ELSE combineAndSubmit(broadcastState(sendTwitchMsg(w1, "votingClosed")))

handleEndVote(w) ==
  LET w1 == [w EXCEPT !.st.pausedVoteRemaining = NULL]
      r == transitionToCombine(w1)
  IN IF ~r.ok
     THEN w1
     ELSE combineAndSubmit(broadcastState(sendTwitchMsg(r.w, "votingClosed")))

handleStartVote(w, t) ==
  LET w1 == clearAutoRepeatTimer(w)
      w2 == [w1 EXCEPT !.st.isPaused = FALSE,
                       !.st.pausedVoteRemaining = NULL,
                       !.st.pausedAutoRepeatRemaining = NULL]
      r == transitionToVote(w2)
  IN IF ~r.ok
     THEN w2
     ELSE LET duration == Max(r.w.st.config.voteDurationSeconds, MIN_VOTE_DURATION_SECONDS)
              w3 == [r.w EXCEPT !.st.voteEndTime = t + (duration * 1000)]
          IN setVoteTimer(broadcastState(sendTwitchMsg(w3, "votingStarted")), t)

\* Variant of scheduleAutoRepeat with a slip: the pause flag is not asked.
scheduleAutoRepeat_ignoresPause(w, t) ==
  LET interval == w.st.config.autoRepeatCooldownSeconds
  IN IF ~Truthy(interval)
     THEN w
     ELSE LET delaySeconds == Max(interval, MIN_AUTO_REPEAT_SECONDS)
              w1 == [w EXCEPT !.st.nextVoteStartTime = t + (delaySeconds * 1000)]
              timer == NewHandle(w1)
              w2 == setTimeout(w1, timer, "autoRepeat", delaySeconds * 1000, t)
          IN broadcastState(setAutoRepeatTimer(w2, timer))

scheduleAutoRepeat(w, t) ==
  IF w.st.isPaused
  THEN w
  ELSE LET interval == w.st.config.autoRepeatCooldownSeconds
       IN IF ~Truthy(interval)
          THEN w
          ELSE LET delaySeconds == Max(interval, MIN_AUTO_REPEAT_SECONDS)
                   w1 == [w EXCEPT !.st.nextVoteStartTime = t + (delaySeconds * 1000)]
                   timer == NewHandle(w1)
                   w2 == setTimeout(w1, timer, "autoRepeat", delaySeconds * 1000, t)
               IN broadcastState(setAutoRepeatTimer(w2, timer))

\* The callback both scheduleAutoRepeat and resumeTimers hand to setTimeout.
autoRepeatCallback(w, t) ==
  handleStartVote([w EXCEPT !.st.nextVoteStartTime = NULL, !.st.autoRepeatTimer = NULL], t)

\* Variant of combineAndSubmitResume with a slip: after a failed call the
\* next vote is not scheduled.
combineAndSubmitResume_noRepeatAfterFailure(w, t) ==
  LET w1 == transitionToIdle(w)
      w2 == broadcastState(IF w.task.failed = {} THEN scheduleAutoRepeat(w1, t) ELSE w1)
  IN [w2 EXCEPT !.task = NoTask, !.sent = <<>>, !.aidCalls = <<>>, !.llmCalls = 0]

\* The rest of combineAndSubmit() once combineSubmissions has settled.
combineAndSubmitResume(w, t) ==
  LET w1 == transitionToIdle(w)
      w2 == broadcastState(scheduleAutoRepeat(w1, t))
  IN \* the cycle is over: its log of messages and calls ends here
     [w2 EXCEPT !.task = NoTask, !.sent = <<>>, !.aidCalls = <<>>, !.llmCalls = 0]

\* ------------------------------------------------------------------------
\* pause.js
\* ------------------------------------------------------------------------
\* Variant of pauseTimers with a slip: the vote handle is dropped without
\* clearTimeout.
pauseTimers_keepsCallback(w, t) ==
  IF w.st.phase = "vote" /\ Truthy(w.st.voteEndTime)
  THEN [w EXCEPT !.st.pausedVoteRemaining = Max(0, w.st.voteEndTime - t),
                 !.st.voteTimer = NULL]
  ELSE IF w.st.phase = "idle" /\ Truthy(w.st.nextVoteStartTime)
       THEN clearAutoRepeatTimer(
              [w EXCEPT !.st.pausedAutoRepeatRemaining = Max(0, w.st.nextVoteStartTime - t)])
       ELSE w

pauseTimers(w, t) ==
  IF w.st.phase = "vote" /\ Truthy(w.st.voteEndTime)
  THEN LET w1 == [w EXCEPT !.st.pausedVoteRemaining = Max(0, w.st.voteEndTime - t)]
       IN IF Truthy(w1.st.voteTimer)
          THEN [clearTimeout(w1, w1.st.voteTimer) EXCEPT !.st.voteTimer = NULL]
          ELSE w1
  ELSE IF w.st.phase = "idle" /\ Truthy(w.st.nextVoteStartTime)
       THEN clearAutoRepeatTimer(
              [w EXCEPT !.st.pausedAutoRepeatRemaining = Max(0, w.st.nextVoteStartTime - t)])
       ELSE w

\* Variant of resumeTimers with a slip: the displayed deadlines are not
\* moved.
resumeTimers_keepsOldDeadline(w, t) ==
  IF w.st.phase = "vote" /\ Truthy(w.st.pausedVoteRemaining)
  THEN LET handle == NewHandle(w)
           w2 == setTimeout(w, handle, "handleEndVote", w.st.pausedVoteRemaining, t)
       IN [w2 EXCEPT !.st.voteTimer = handle, !.st.pausedVoteRemaining = NULL]
  ELSE IF w.st.phase = "idle" /\ Truthy(w.st.pausedAutoRepeatRemaining)
       THEN LET timer == NewHandle(w)
                w2 == setTimeout(w, timer, "autoRepeat", w.st.pausedAutoRepeatRemaining, t)
            IN [setAutoRepeatTimer(w2, timer) EXCEPT !.st.pausedAutoRepeatRemaining = NULL]
       ELSE IF w.st.phase = "idle" /\ Truthy(w.st.config.autoRepeatCooldownSeconds)
            THEN scheduleAutoRepeat(w, t)
            ELSE w

\* Variant of resumeTimers with a slip: nothing stored, nothing scheduled.
resumeTimers_noFresh(w, t) ==
  IF w.st.phase = "vote" /\ Truthy(w.st.pausedVoteRemaining)
  THEN LET w1 == [w EXCEPT !.st.voteEndTime = t + w.st.pausedVoteRemaining]
           handle == NewHandle(w1)
           w2 == setTimeout(w1, handle, "handleEndVote", w1.st.pausedVoteRemaining, t)
       IN [w2 EXCEPT !.st.voteTimer = handle, !.st.pausedVoteRemaining = NULL]
  ELSE IF w.st.phase = "idle" /\ Truthy(w.st.pausedAutoRepeatRemaining)
       THEN LET w1 == [w EXCEPT !.st.nextVoteStartTime = t + w.st.pausedAutoRepeatRemaining]
                timer == NewHandle(w1)
                w2 == setTimeout(w1, timer, "autoRepeat", w1.st.pausedAutoRepeatRemaining, t)
            IN [setAutoRepeatTimer(w2, timer) EXCEPT !.st.pausedAutoRepeatRemaining = NULL]
       ELSE w

\* Variant of resumeTimers with a slip: the fresh auto-repeat does not ask
\* for the idle phase.
resumeTimers_anyPhase(w, t) ==
  IF w.st.phase = "vote" /\ Truthy(w.st.pausedVoteRemaining)
  THEN LET w1 == [w EXCEPT !.st.voteEndTime = t + w.st.pausedVoteRemaining]
           handle == NewHandle(w1)
           w2 == setTimeout(w1, handle, "handleEndVote", w1.st.pausedVoteRemaining, t)
       IN [w2 EXCEPT !.st.voteTimer = handle, !.st.pausedVoteRemaining = NULL]
  ELSE IF w.st.phase = "idle" /\ Truthy(w.st.pausedAutoRepeatRemaining)
       THEN LET w1 == [w EXCEPT !.st.nextVoteStartTime = t + w.st.pausedAutoRepeatRemaining]
                timer == NewHandle(w1)
                w2 == setTimeout(w1, timer, "autoRepeat", w1.st.pausedAutoRepeatRemaining, t)
            IN [setAutoRepeatTimer(w2, timer) EXCEPT !.st.pausedAutoRepeatRemaining = NULL]
       ELSE IF Truthy(w.st.config.autoRepeatCooldownSeconds)
            THEN scheduleAutoRepeat(w, t)
            ELSE w

resumeTimers(w, t) ==
  IF w.st.phase = "vote" /\ Truthy(w.st.pausedVoteRemaining)
  THEN LET w1 == [w EXCEPT !.st.voteEndTime = t + w.st.pausedVoteRemaining]
           handle == NewHandle(w1)
           w2 == setTimeout(w1, handle, "handleEndVote", w1.st.pausedVoteRemaining, t)
       IN [w2 EXCEPT !.st.voteTimer = handle, !.st.pausedVoteRemaining = NULL]
  ELSE IF w.st.phase = "idle" /\ Truthy(w.st.pausedAutoRepeatRemaining)
       THEN LET w1 == [w EXCEPT !.st.nextVoteStartTime = t + w.st.pausedAutoRepeatRemaining]
                timer == NewHandle(w1)
                w2 == setTimeout(w1, timer, "autoRepeat", w1.st.pausedAutoRepeatRemaining, t)
            IN [setAutoRepeatTimer(w2, timer) EXCEPT !.st.pausedAutoRepeatRemaining = NULL]
       ELSE IF w.st.phase = "idle" /\ Truthy(w.st.config.autoRepeatCooldownSeconds)
            THEN scheduleAutoRepeat(w, t)
            ELSE w

togglePause(w, t) ==
  LET w1 == [w EXCEPT !.st.isPaused = ~w.st.isPaused]
  IN broadcastState(IF w1.st.isPaused THEN pauseTimers(w1, t) ELSE resumeTimers(w1, t))

handleTogglePause(w, t) == togglePause(w, t)


\* ------------------------------------------------------------------------
\* index.js: chat handlers
\* ------------------------------------------------------------------------
cmdVote == <<"!", "v", "o", "t", "e">>
cmdTally == <<"!", "t", "a", "l", "l", "y">>

\* Variant of handleTwitchChatMessage with a slip: the commands are open to
\* every chatter.
handleTwitchChatMessage_anyoneCommands(w, message, t) ==
  LET user == message.user
      text == message.text
      debugMode == w.st.config.debugMode
  IN IF toLowerCase(text) = cmdVote
     THEN handleStartVote(w, t)
     ELSE IF toLowerCase(text) = cmdTally
     THEN handleEndVote(w)
     ELSE IF w.st.phase # "vote"
     THEN w
     ELSE IF voteMatch(text) # <<>>
     THEN broadcastState(handleVote(w, user, toLowerCase(voteMatch(text)), debugMode))
     ELSE IF submissionMatches(text)
     THEN broadcastState(handleSubmission(w, user, submissionCapture(text), debugMode, t))
     ELSE w

handleTwitchChatMessage(w, message, t) ==
  LET user == message.user
      text == message.text
      canUseCommands == message.isBroadcaster \/ message.isMod
      debugMode == w.st.config.debugMode
  IN IF toLowerCase(text) = cmdVote
     THEN (IF canUseCommands THEN handleStartVote(w, t) ELSE w)
     ELSE IF toLowerCase(text) = cmdTally
     THEN (IF canUseCommands THEN handleEndVote(w) ELSE w)
     ELSE IF w.st.phase # "vote"
     THEN w
     ELSE IF voteMatch(text) # <<>>
     THEN broadcastState(handleVote(w, user, toLowerCase(voteMatch(text)), debugMode))
     ELSE IF submissionMatches(text)
     THEN broadcastState(handleSubmission(w, user, submissionCapture(text), debugMode, t))
     ELSE w

\* Variant of handleYouTubeChatMessage with a slip: no phase gate.
handleYouTubeChatMessage_noPhaseGate(w, user, text, t) ==
  LET debugMode == w.st.config.debugMode
  IN IF voteMatch(text) # <<>>
     THEN broadcastState(handleVote(w, user, toLowerCase(voteMatch(text)), debugMode))
     ELSE IF submissionMatches(text)
     THEN broadcastState(handleSubmission(w, user, submissionCapture(text), debugMode, t))
     ELSE w

handleYouTubeChatMessage(w, user, text, t) ==
  LET debugMode == w.st.config.debugMode
  IN IF w.st.phase # "vote"
     THEN w
     ELSE IF voteMatch(text) # <<>>
     THEN broadcastState(handleVote(w, user, toLowerCase(voteMatch(text)), debugMode))
     ELSE IF submissionMatches(text)
     THEN broadcastState(handleSubmission(w, user, submissionCapture(text), debugMode, t))
     ELSE w

\* The chrome.runtime.onMessage listener for YOUTUBE_CHAT_MESSAGE.
onYouTubeChatMessage(w, user, text, t) ==
  IF w.st.config.youtubeUrl THEN handleYouTubeChatMessage(w, user, text, t) ELSE w

\* storage.js saveConfig followed by the broadcast of handleSaveConfig.
handleSaveConfig(w, updates) == broadcastState([w EXCEPT !.st.config = updates])

\* ------------------------------------------------------------------------
\* Inputs
\* ------------------------------------------------------------------------
Ann == <<"A", "n", "n">>
bob == <<"b", "o", "b">>

submitGo == <<">", " ", "g", "o">>
submitRun == <<">", "r", "u", "n">>
submitBlank == <<">", " ">>
voteForAnn == <<"+", "1", " ", "@", "a", "n", "n">>
voteForAnn2 == <<"@", "A", "N", "N", " ", " ", "+", "1">>
hello == <<"h", "i">>

TwitchMessage(user, text, isBroadcaster, isMod) ==
  [user |-> user, text |-> text, isBroadcaster |-> isBroadcaster, isMod |-> isMod]

\* The chat lines of the Twitch channel: Ann is the broadcaster.
TwitchMessages ==
  { TwitchMessage(Ann, cmdVote, TRUE, FALSE),
    TwitchMessage(bob, <<"!", "T", "a", "l", "l", "y">>, FALSE, TRUE),
    TwitchMessage(bob, cmdVote, FALSE, FALSE),
    TwitchMessage(Ann, submitGo, TRUE, FALSE),
    TwitchMessage(bob, submitBlank, FALSE, FALSE),
    TwitchMessage(bob, voteForAnn, FALSE, FALSE),
    TwitchMessage(Ann, hello, TRUE, FALSE) }

\* The chat lines of the YouTube live chat.
YouTubeMessages ==
  { [user |-> bob, text |-> submitRun],
    [user |-> bob, text |-> voteForAnn2],
    [user |-> bob, text |-> cmdVote] }

\* What the language model answers.
LLMTexts == {<<"m", "i", "x">>}
\* What fetchMostRecentAction finds: an action text, or NULL (no action, or
\* the fetch failed).
RecentActions == {<<"a", "c", "t">>}

Configs ==
  [voteDurationSeconds : {3},
   autoRepeatCooldownSeconds : {NULL, 10},
   debugMode : {FALSE},
   openRouterApiKey : BOOLEAN,
   youtubeUrl : {TRUE}]

\* ------------------------------------------------------------------------
\* The state machine
\* ------------------------------------------------------------------------
Init ==
  /\ \E config \in Configs : state = createInitialState(config)
  /\ timeouts = {}
  /\ task = NoTask
  /\ sent = <<>>
  /\ aidCalls = <<>>
  /\ llmCalls = 0
  /\ ui = getPublicState(state)
  /\ now = 0

\* A continuation of combineAndSubmit() that is ready runs before the next
\* event is taken from the queue (promise jobs run before the next task).
EventLoopFree == task.pc # "resume"

\* The ledger and the vote counters stay within the bounds.
WithinBounds(w) ==
  /\ Len(w.st.submissions) <= MaxSubs
  /\ \A i \in 1..Len(w.st.submissions) : getVoteCount(w.st.submissions[i]) <= MaxDebugVotes

\* Popup message START_VOTE
PopupStartVote ==
  /\ EventLoopFree
  /\ Commit(handleStartVote(World, now))
  /\ UNCHANGED now

\* Popup message END_VOTE
PopupEndVote ==
  /\ EventLoopFree
  /\ Commit(handleEndVote(World))
  /\ UNCHANGED now

\* Popup message TOGGLE_PAUSE
PopupTogglePause ==
  /\ EventLoopFree
  /\ Commit(handleTogglePause(World, now))
  /\ UNCHANGED now

\* Popup message SAVE_CONFIG
PopupSaveConfig ==
  /\ EventLoopFree
  /\ \E updates \in Configs :
       /\ updates # state.config
       /\ Commit(handleSaveConfig(World, updates))
  /\ UNCHANGED now

\* A PRIVMSG line from the Twitch chat
TwitchChat ==
  /\ EventLoopFree
  /\ \E message \in TwitchMessages :
       LET w == handleTwitchChatMessage(World, message, now)
       IN /\ WithinBounds(w)
          /\ Commit(w)
  /\ UNCHANGED now

\* A YOUTUBE_CHAT_MESSAGE from the content script
YouTubeChat ==
  /\ EventLoopFree
  /\ \E message \in YouTubeMessages :
       LET w == onYouTubeChatMessage(World, message.user, message.text, now)
       IN /\ WithinBounds(w)
          /\ Commit(w)
  /\ UNCHANGED now

\* A pending setTimeout(handleEndVote, ...) callback runs, at or after its
\* time.
VoteTimerFires ==
  /\ EventLoopFree
  /\ \E tm \in timeouts :
       /\ tm.callback = "handleEndVote"
       /\ tm.at <= now
       /\ Commit(handleEndVote([World EXCEPT !.timeouts = @ \ {tm}]))
  /\ UNCHANGED now

\* A pending auto-repeat callback runs, at or after its time.
AutoRepeatTimerFires ==
  /\ EventLoopFree
  /\ \E tm \in timeouts :
       /\ tm.callback = "autoRepeat"
       /\ tm.at <= now
       /\ Commit(autoRepeatCallback([World EXCEPT !.timeouts = @ \ {tm}], now))
  /\ UNCHANGED now

\* fetchMostRecentAction settles: with a text, or with null when there is no
\* action or the fetch failed.  combineSubmissions goes on to recursiveMerge.
FetchMostRecentActionReturns ==
  /\ EventLoopFree
  /\ task.pc = "awaitFetch"
  /\ \E outcome \in {"text", "none", "failed"}, text \in RecentActions :
       LET mostRecentAction == IF outcome = "text" THEN text ELSE <<>>
           w == [World EXCEPT !.task.failed = IF outcome = "failed" THEN @ \cup {"fetch"} ELSE @]
       IN Commit(recursiveMerge(w, w.st.submissions, mostRecentAction))
  /\ UNCHANGED now

\* Variant of OpenRouterReturns with a slip: a failed call is answered with
\* a fallback text and the merge goes on.
OpenRouterReturns_partialResult ==
  /\ EventLoopFree
  /\ task.pc = "awaitMerge"
  /\ \E k \in task.pending, ok \in BOOLEAN, text \in LLMTexts :
       LET w == [World EXCEPT !.task.failed = IF ok THEN @ ELSE @ \cup {"merge"}]
           w1 == [w EXCEPT !.task.pending = @ \ {k},
                           !.task.results[k] = text]
       IN IF w1.task.pending # {}
          THEN Commit(w1)
          ELSE IF Len(w1.task.round) <= batchSize
          THEN Commit(afterMerge(w1, text, [response |-> text, timestamp |-> now]))
          ELSE Commit(recursiveMerge(w1,
                        [j \in 1..Len(w1.task.results) |->
                           intermediateResult(j, w1.task.results[j], now)],
                        <<>>))
  /\ UNCHANGED now

\* Variant of OpenRouterReturns with a slip: the next round merges the
\* submissions of this round again, not the intermediate results.
OpenRouterReturns_remergesRound ==
  /\ EventLoopFree
  /\ task.pc = "awaitMerge"
  /\ \E k \in task.pending, ok \in BOOLEAN, text \in LLMTexts :
       LET w == World
       IN IF ~ok
          THEN Commit([sendTwitchMsg(w, "error") EXCEPT
                         !.task.pc = "resume", !.task.pending = {},
                         !.task.failed = @ \cup {"merge"}])
          ELSE LET w1 == [w EXCEPT !.task.pending = @ \ {k},
                                   !.task.results[k] = text]
               IN IF w1.task.pending # {}
                  THEN Commit(w1)
                  ELSE IF Len(w1.task.round) <= batchSize
                  THEN Commit(afterMerge(w1, text, [response |-> text, timestamp |-> now]))
                  ELSE Commit(recursiveMerge(w1, w1.task.round, <<>>))
  /\ UNCHANGED now

\* One callOpenRouter of the current round settles.
OpenRouterReturns ==
  /\ EventLoopFree
  /\ task.pc = "awaitMerge"
  /\ \E k \in task.pending, ok \in BOOLEAN, text \in LLMTexts :
       LET w == World
       IN IF ~ok
          THEN \* Promise.all rejects; the catch of combineSubmissions reports
               Commit([sendTwitchMsg(w, "error") EXCEPT
                         !.task.pc = "resume", !.task.pending = {},
                         !.task.failed = @ \cup {"merge"}])
          ELSE LET w1 == [w EXCEPT !.task.pending = @ \ {k},
                                   !.task.results[k] = text]
               IN IF w1.task.pending # {}
                  THEN Commit(w1)
                  ELSE IF Len(w1.task.round) <= batchSize
                  THEN Commit(afterMerge(w1, text, [response |-> text, timestamp |-> now]))
                  ELSE Commit(recursiveMerge(w1,
                                [j \in 1..Len(w1.task.results) |->
                                   intermediateResult(j, w1.task.results[j], now)],
                                <<>>))
  /\ UNCHANGED now

\* Variant of SubmitToAIDReturns with a slip: the catch reports nothing.
SubmitToAIDReturns_silentCatch ==
  /\ EventLoopFree
  /\ task.pc = "awaitSubmit"
  /\ \E ok \in BOOLEAN :
       Commit([(IF ok THEN sendTwitchMsg(World, "submitted") ELSE World) EXCEPT
                 !.task.pc = "resume",
                 !.task.failed = IF ok THEN @ ELSE @ \cup {"submit"}])
  /\ UNCHANGED now

\* submitToAID settles: it reports success to the chat itself, and its
\* failure is caught and reported by combineSubmissions.
SubmitToAIDReturns ==
  /\ EventLoopFree
  /\ task.pc = "awaitSubmit"
  /\ \E ok \in BOOLEAN :
       Commit([sendTwitchMsg(World, IF ok THEN "submitted" ELSE "error") EXCEPT
                 !.task.pc = "resume",
                 !.task.failed = IF ok THEN @ ELSE @ \cup {"submit"}])
  /\ UNCHANGED now

\* combineAndSubmit() resumes after combineSubmissions.
CombineAndSubmitResumes ==
  /\ task.pc = "resume"
  /\ Commit(combineAndSubmitResume(World, now))
  /\ UNCHANGED now

\* Time passes.
Tick ==
  /\ EventLoopFree
  /\ \E t \in (now + 1)..MaxTime :
       /\ (t - now) % TickMs = 0
       /\ now' = t
  /\ UNCHANGED <<state, timeouts, task, sent, aidCalls, llmCalls, ui>>

Next ==
  \/ PopupStartVote
  \/ PopupEndVote
  \/ PopupTogglePause
  \/ PopupSaveConfig
  \/ TwitchChat
  \/ YouTubeChat
  \/ VoteTimerFires
  \/ AutoRepeatTimerFires
  \/ FetchMostRecentActionReturns
  \/ OpenRouterReturns
  \/ SubmitToAIDReturns
  \/ CombineAndSubmitResumes
  \/ Tick

Spec == Init /\ [][Next]_vars

\* Every continuation of combineAndSubmit() is eventually run: each
\* collaborator call returns or fails, and a ready continuation runs.
FairSpec ==
  /\ Spec
  /\ WF_vars(FetchMostRecentActionReturns)
  /\ WF_vars(OpenRouterReturns)
  /\ WF_vars(SubmitToAIDReturns)
  /\ WF_vars(CombineAndSubmitResumes)

\* ------------------------------------------------------------------------
\* The ledger within one vote phase: the chat handlers applied to the lines
\* of a busier chat, in normal and in debug mode
\* ------------------------------------------------------------------------
ANN == <<"A", "N", "N">>
cat == <<"c", "a", "t">>

\* A submission text one character over the limit.
LongText == [i \in 1..(MAX_SUBMISSION_LENGTH + 1) |-> "x"]

voteForBob == <<"@", "B", "O", "B", " ", "+", "1">>
voteForDan == <<"+", "1", " ", "@", "d", "a", "n">>

\* The lines of viewers without badges: submissions (one of them by Ann
\* under another spelling of her name), a blank and an over-long submission,
\* votes (for others, for oneself, for a user with no submission), a command
\* and plain talk.
LedgerTwitchMessages ==
  { TwitchMessage(Ann, submitGo, FALSE, FALSE),
    TwitchMessage(ANN, submitRun, FALSE, FALSE),
    TwitchMessage(bob, submitRun, FALSE, FALSE),
    TwitchMessage(bob, submitBlank, FALSE, FALSE),
    TwitchMessage(bob, <<">">> \o LongText, FALSE, FALSE),
    TwitchMessage(bob, voteForAnn, FALSE, FALSE),
    TwitchMessage(cat, voteForAnn, FALSE, FALSE),
    TwitchMessage(cat, voteForBob, FALSE, FALSE),
    TwitchMessage(Ann, voteForAnn, FALSE, FALSE),
    TwitchMessage(cat, voteForDan, FALSE, FALSE),
    TwitchMessage(cat, cmdTally, FALSE, FALSE),
    TwitchMessage(cat, hello, FALSE, FALSE) }

LedgerYouTubeMessages ==
  { [user |-> bob, text |-> submitGo],
    [user |-> cat, text |-> voteForAnn2],
    [user |-> cat, text |-> cmdVote] }

LedgerConfigs ==
  [voteDurationSeconds : {3},
   autoRepeatCooldownSeconds : {NULL},
   debugMode : BOOLEAN,
   openRouterApiKey : {FALSE},
   youtubeUrl : {TRUE}]

\* The service worker right after START_VOTE at time 0.
LedgerInit ==
  /\ now = 0
  /\ \E config \in LedgerConfigs :
       LET s0 == createInitialState(config)
           w0 == [st |-> s0, timeouts |-> {}, task |-> NoTask, sent |-> <<>>,
                  aidCalls |-> <<>>, llmCalls |-> 0, ui |-> getPublicState(s0)]
           w == handleStartVote(w0, 0)
       IN /\ state = w.st
          /\ timeouts = w.timeouts
          /\ task = w.task
          /\ sent = w.sent
          /\ aidCalls = w.aidCalls
          /\ llmCalls = w.llmCalls
          /\ ui = w.ui

\* A PRIVMSG line of the busier chat
LedgerTwitchChat ==
  /\ \E message \in LedgerTwitchMessages :
       LET w == handleTwitchChatMessage(World, message, now)
       IN WithinBounds(w) /\ Commit(w)
  /\ UNCHANGED now

\* A YouTube line of the busier chat
LedgerYouTubeChat ==
  /\ \E message \in LedgerYouTubeMessages :
       LET w == onYouTubeChatMessage(World, message.user, message.text, now)
       IN WithinBounds(w) /\ Commit(w)
  /\ UNCHANGED now

LedgerNext ==
  \/ LedgerTwitchChat
  \/ LedgerYouTubeChat
  \/ Tick

LedgerSpec == LedgerInit /\ [][LedgerNext]_vars

\* ------------------------------------------------------------------------
\* The merge of a large ledger: a vote with many chatters is ended from the
\* popup and combineAndSubmit() runs to its end.
\* ------------------------------------------------------------------------
\* Chatter i and the text of their submission.
chatter(i) == <<"u", ToString(i)>>
chatterText(i) == <<"d", "o", ToString(i)>>

\* The sizes of the ledgers: one submission, a few, a full batch, one more
\* than a batch, and MaxBatches batches of which the last holds 60.
MergeSizes ==
  {1, 2, 12, batchSize, batchSize + 1, (MaxBatches - 1) * batchSize + 60}

\* The ledger after n chatters submitted, each at their own millisecond.
\* With "own" nobody voted; with "shared" the first chatters also voted
\* for the first submission.
MergeLedger(n, voting) ==
  [i \in 1..n |->
     [user |-> chatter(i), text |-> chatterText(i), timestamp |-> i,
      votes |-> IF voting = "shared" /\ i = 1
                THEN {chatter(j) : j \in 1..(IF n < 3 THEN n ELSE 3)}
                ELSE {chatter(i)},
      debugVoteCount |-> NULL]]

MergeConfigs ==
  [voteDurationSeconds : {3},
   autoRepeatCooldownSeconds : {NULL},
   debugMode : {FALSE},
   openRouterApiKey : BOOLEAN,
   youtubeUrl : {TRUE}]

MergeInit ==
  /\ now = 0
  /\ \E config \in MergeConfigs, n \in MergeSizes, voting \in {"own", "shared"} :
       LET s0 == createInitialState(config)
           w0 == [st |-> s0, timeouts |-> {}, task |-> NoTask, sent |-> <<>>,
                  aidCalls |-> <<>>, llmCalls |-> 0, ui |-> getPublicState(s0)]
           w1 == handleStartVote(w0, 0)
           w == broadcastState([w1 EXCEPT !.st.submissions = MergeLedger(n, voting)])
       IN /\ state = w.st
          /\ timeouts = w.timeouts
          /\ task = w.task
          /\ sent = w.sent
          /\ aidCalls = w.aidCalls
          /\ llmCalls = w.llmCalls
          /\ ui = w.ui

MergeNext ==
  \/ PopupEndVote
  \/ FetchMostRecentActionReturns
  \/ OpenRouterReturns
  \/ SubmitToAIDReturns
  \/ CombineAndSubmitResumes

MergeSpec == MergeInit /\ [][MergeNext]_vars

\* Every call made by combineAndSubmit() returns or fails, and a ready
\* continuation runs.
MergeFairSpec ==
  /\ MergeSpec
  /\ WF_vars(FetchMostRecentActionReturns)
  /\ WF_vars(OpenRouterReturns)
  /\ WF_vars(SubmitToAIDReturns)
  /\ WF_vars(CombineAndSubmitResumes)

\* ------------------------------------------------------------------------
\* A session on auto-repeat that is never paused and whose configuration is
\* left alone.
\* ------------------------------------------------------------------------
RepeatConfigs ==
  [voteDurationSeconds : {3},
   autoRepeatCooldownSeconds : {10},
   debugMode : {FALSE},
   openRouterApiKey : BOOLEAN,
   youtubeUrl : {TRUE}]

RepeatInit ==
  /\ \E config \in RepeatConfigs : state = createInitialState(config)
  /\ timeouts = {}
  /\ task = NoTask
  /\ sent = <<>>
  /\ aidCalls = <<>>
  /\ llmCalls = 0
  /\ ui = getPublicState(state)
  /\ now = 0

RepeatNext ==
  \/ PopupStartVote
  \/ PopupEndVote
  \/ TwitchChat
  \/ YouTubeChat
  \/ VoteTimerFires
  \/ AutoRepeatTimerFires
  \/ FetchMostRecentActionReturns
  \/ OpenRouterReturns
  \/ SubmitToAIDReturns
  \/ CombineAndSubmitResumes
  \/ Tick

RepeatSpec == RepeatInit /\ [][RepeatNext]_vars

\* ------------------------------------------------------------------------
\* Properties
\* ------------------------------------------------------------------------
VoteTimers == {tm \in timeouts : tm.callback = "handleEndVote"}
AutoRepeatTimers == {tm \in timeouts : tm.callback = "autoRepeat"}
SentSet == {sent[i] : i \in 1..Len(sent)}

\* The worlds a start request leaves when it is handled now: the popup's
\* START_VOTE and a broadcaster's or moderator's !vote.
StartRequests ==
  {handleStartVote(World, now)} \cup
  {handleTwitchChatMessage(World, m, now) :
     m \in {x \in TwitchMessages : /\ toLowerCase(x.text) = cmdVote
                                   /\ (x.isBroadcaster \/ x.isMod)}}

\* The worlds a chat line other than a command leaves when it is handled
\* now, from Twitch and from YouTube.
ChatEvents ==
  {handleTwitchChatMessage(World, m, now) :
     m \in {x \in TwitchMessages : toLowerCase(x.text) \notin {cmdVote, cmdTally}}} \cup
  {onYouTubeChatMessage(World, m.user, m.text, now) : m \in YouTubeMessages}

\* C1: every step that changes the phase is idle->vote, vote->combine or a
\* step into idle; vote is entered only from idle and combine only from vote.
C1_PhaseCycle ==
  [][state'.phase # state.phase =>
       \/ state.phase = "idle" /\ state'.phase = "vote"
       \/ state.phase = "vote" /\ state'.phase = "combine"
       \/ state'.phase = "idle"]_vars

\* A whole cycle has run: the phase is idle again and the cycle's
\* submissions are still in the ledger.
C1_Witness == state.phase = "idle" /\ state.submissions # <<>> /\ task.pc = "none"

\* C2: a chat submission or vote handled while the phase is idle or combine
\* leaves the ledger unchanged, and no step taken in the combine phase
\* changes the ledger.
C2_LedgerFrozenOutsideVote ==
  /\ [](state.phase # "vote" =>
          \A w \in ChatEvents : w.st.submissions = state.submissions)
  /\ [][state.phase = "combine" => state'.submissions = state.submissions]_vars

\* A merge is in flight over a ledger that has room for another entry, and
\* chat lines keep arriving.
C2_Witness ==
  /\ state.phase = "combine"
  /\ task.pc = "awaitFetch"
  /\ Len(state.submissions) = 1
  /\ ChatEvents = {World}

\* C3: the step idle->vote leaves the ledger empty, and no other step
\* removes a submission: every entry stays at its place with its user.
C3_LedgerClearedOnlyOnVote ==
  [][IF state.phase = "idle" /\ state'.phase = "vote"
     THEN state'.submissions = <<>>
     ELSE /\ Len(state'.submissions) >= Len(state.submissions)
          /\ \A i \in 1..Len(state.submissions) :
               state'.submissions[i].user = state.submissions[i].user]_vars

\* A vote phase has begun after a cycle that merged two or more submissions
\* (its trace is still there), and the ledger is empty.
C3_Witness ==
  /\ state.phase = "vote"
  /\ state.lastAICall # NoDebugInfo
  /\ state.submissions = <<>>

\* C4: at most one vote-timer callback and at most one auto-repeat callback
\* are pending.
C4_OneTimerOfEachKind ==
  Cardinality(VoteTimers) <= 1 /\ Cardinality(AutoRepeatTimers) <= 1

\* A vote timer scheduled by a resume is pending: it comes due later than a
\* full vote duration after a submission of this vote.
C4_Witness ==
  /\ ~state.isPaused
  /\ Cardinality(VoteTimers) = 1
  /\ \E tm \in VoteTimers, i \in 1..Len(state.submissions) :
       /\ tm.id = state.voteTimer
       /\ state.submissions[i].timestamp
            + Max(state.config.voteDurationSeconds, MIN_VOTE_DURATION_SECONDS) * 1000 < tm.at

\* C5: a vote timer is pending only in the vote phase, an auto-repeat timer
\* only in the idle phase, and never both.
C5_TimersMatchPhase ==
  /\ VoteTimers # {} => state.phase = "vote"
  /\ AutoRepeatTimers # {} => state.phase = "idle"
  /\ VoteTimers = {} \/ AutoRepeatTimers = {}

\* A vote was ended by hand before its deadline, while its timer was pending.
C5_Witness ==
  state.phase = "combine" /\ now < state.voteEndTime /\ timeouts = {}

\* C6: transitionToVote succeeds, with phase vote, exactly from idle, and
\* transitionToCombine succeeds, with phase combine, exactly from vote; a
\* failed transition returns false and leaves the state and the pending
\* timers as they were; transitionToIdle ends in idle from every phase.
C6_TransitionContracts ==
  /\ transitionToVote(World).ok <=> state.phase = "idle"
  /\ transitionToVote(World).ok => transitionToVote(World).w.st.phase = "vote"
  /\ ~transitionToVote(World).ok => transitionToVote(World).w = World
  /\ transitionToCombine(World).ok <=> state.phase = "vote"
  /\ transitionToCombine(World).ok => transitionToCombine(World).w.st.phase = "combine"
  /\ ~transitionToCombine(World).ok => transitionToCombine(World).w = World
  /\ transitionToIdle(World).st.phase = "idle"

\* transitionToVote fails on a running vote that has a submission and a
\* pending timer, and transitionToCombine succeeds on it.
C6_Witness ==
  /\ state.phase = "vote"
  /\ state.submissions # <<>>
  /\ VoteTimers # {}
  /\ ~transitionToVote(World).ok
  /\ transitionToCombine(World).ok

\* C7: a start request that arrives while the phase is vote or combine
\* leaves the state object and the pending timers unchanged.
C7_RejectedStartChangesNothing ==
  state.phase \in {"vote", "combine"} =>
    \A w \in StartRequests : w.st = state /\ w.timeouts = timeouts

\* C8: a resume that finds a stored remaining time R >= 0 sets the deadline
\* to the resume instant + R and leaves a callback pending for that instant.
C8_ResumeHonoursRemaining ==
  LET w == handleTogglePause(World, now)
  IN state.isPaused =>
       /\ (state.phase = "vote" /\ state.pausedVoteRemaining # NULL) =>
            /\ w.st.voteEndTime = now + state.pausedVoteRemaining
            /\ \E tm \in w.timeouts :
                 /\ tm.callback = "handleEndVote"
                 /\ tm.id = w.st.voteTimer
                 /\ tm.at = now + state.pausedVoteRemaining
       /\ (state.phase = "idle" /\ state.pausedAutoRepeatRemaining # NULL) =>
            /\ w.st.nextVoteStartTime = now + state.pausedAutoRepeatRemaining
            /\ \E tm \in w.timeouts :
                 /\ tm.callback = "autoRepeat"
                 /\ tm.id = w.st.autoRepeatTimer
                 /\ tm.at = now + state.pausedAutoRepeatRemaining

\* C9 as stated: when combineSubmissions has settled after any collaborator
\* call failed, an error message has been sent to the chat.
C9_EveryFailureReported ==
  (task.pc = "resume" /\ task.failed # {}) => "error" \in SentSet

\* C9: every combine phase is followed by idle, and when combineSubmissions
\* has settled after the merge or the game submission failed, an error
\* message has been sent to the chat (a failed fetch of the most recent
\* action is not reported: the merge goes on without it).
C9_CombineLeadsToIdle ==
  /\ (state.phase = "combine") ~> (state.phase = "idle")
  /\ []((task.pc = "resume" /\ task.failed \cap {"merge", "submit"} # {})
          => "error" \in SentSet)

\* The merge failed, the error went to the chat, and combineAndSubmit() is
\* about to return to idle.
C9_Witness ==
  /\ state.phase = "combine"
  /\ task.pc = "resume"
  /\ "merge" \in task.failed
  /\ "error" \in SentSet

\* The call made by a tally: one text, that of a submission with the most
\* votes and, among those, the latest timestamp.
IsWinnerCall(calls, submissions) ==
  /\ Len(calls) = 1
  /\ \E i \in 1..Len(submissions) :
       /\ calls[1] = submissions[i].text
       /\ \A j \in 1..Len(submissions) :
            \/ getVoteCount(submissions[j]) < getVoteCount(submissions[i])
            \/ /\ getVoteCount(submissions[j]) = getVoteCount(submissions[i])
               /\ submissions[j].timestamp <= submissions[i].timestamp

\* C10: the step that ends a vote with a non-empty ledger and no API key
\* calls submitToAID once, with the winner's text, and no further call is
\* made until the phase is idle again.
C10_TallySubmitsWinner ==
  [][/\ (/\ state.phase = "vote" /\ state'.phase = "combine"
         /\ ~state.config.openRouterApiKey
         /\ state.submissions # <<>>)
          => /\ task'.mode = "tally"
             /\ IsWinnerCall(aidCalls', state'.submissions)
     /\ (state.phase = "combine" /\ task.mode = "tally")
          => (aidCalls' = aidCalls \/ state'.phase = "idle")]_vars

\* A tally between two submissions was won by the second entry, and the
\* game has accepted its text.
C10_Witness ==
  /\ task.mode = "tally"
  /\ task.pc = "resume"
  /\ "submitted" \in SentSet
  /\ Len(state.submissions) = 2
  /\ state.submissions[2].text # state.submissions[1].text
  /\ aidCalls = <<state.submissions[2].text>>

\* sorted[0] of the tally
tallyWinner(submissions) == sortSubmissions(submissions)[1]

\* C11: the winner of a tally over a non-empty ledger has the most votes,
\* and no submission with as many votes has a later timestamp.
C11_WinnerIsMaximal ==
  state.submissions # <<>> =>
    LET winner == tallyWinner(state.submissions)
    IN \A j \in 1..Len(state.submissions) :
         /\ getVoteCount(state.submissions[j]) <= getVoteCount(winner)
         /\ getVoteCount(state.submissions[j]) = getVoteCount(winner)
              => state.submissions[j].timestamp <= winner.timestamp

\* Two submissions have the same votes and the later one, the second entry,
\* wins.
C11_Witness ==
  /\ Len(state.submissions) = 2
  /\ getVoteCount(state.submissions[1]) = getVoteCount(state.submissions[2])
  /\ state.submissions[1].timestamp < state.submissions[2].timestamp
  /\ tallyWinner(state.submissions) = state.submissions[2]
  /\ state.submissions[1].text # state.submissions[2].text

\* The ledgers that hold the same submissions in another insertion order.
InsertionOrders(submissions) ==
  LET n == Len(submissions)
      perms == {p \in [1..n -> 1..n] : \A i, j \in 1..n : p[i] = p[j] => i = j}
  IN {[i \in 1..n |-> submissions[p[i]]] : p \in perms}

\* C12 as stated: every insertion order of the ledger's submissions yields
\* the same winning text.
C12_WinnerIgnoresOrder ==
  \A other \in InsertionOrders(state.submissions) :
    state.submissions # <<>> =>
      tallyWinner(other).text = tallyWinner(state.submissions).text

\* C12: every insertion order yields the same winning text when no other
\* submission has both the winner's votes and the winner's timestamp; among
\* submissions equal in both, the one inserted first wins.
C12_WinnerIgnoresOrderUnlessTied ==
  state.submissions # <<>> =>
    LET subs == state.submissions
        winner == tallyWinner(subs)
        tied == {i \in 1..Len(subs) :
                   /\ getVoteCount(subs[i]) = getVoteCount(winner)
                   /\ subs[i].timestamp = winner.timestamp}
    IN /\ winner = subs[CHOOSE i \in tied : \A j \in tied : i <= j]
       /\ Cardinality(tied) = 1 =>
            \A other \in InsertionOrders(subs) : tallyWinner(other).text = winner.text

\* The second entry wins alone, so the ledger with its two entries swapped
\* has the same winner.
C12_Witness ==
  /\ Len(state.submissions) = 2
  /\ state.submissions[1].text # state.submissions[2].text
  /\ getVoteCount(state.submissions[2]) > getVoteCount(state.submissions[1])
  /\ tallyWinner(state.submissions) = state.submissions[2]
  /\ tallyWinner(<<state.submissions[2], state.submissions[1]>>) = state.submissions[2]

\* The users and the texts handed to handleSubmission and handleVote.
LedgerUsers == {Ann, ANN, bob, cat}
GoodTexts == {<<"g", "o">>, <<"r", "u", "n">>}
BadTexts == {<<>>, LongText, LongText \o <<"x">>}

\* C13: handleSubmission with a text of length 0 or of length above 200
\* leaves the ledger unchanged, in normal and in debug mode.
C13_BadLengthIsNoOp ==
  \A user \in LedgerUsers, text \in BadTexts, debugMode \in BOOLEAN :
    handleSubmission(World, user, text, debugMode, now).st.submissions = state.submissions

\* bob has a submission that a short text of his would replace, while his
\* empty and his over-long text leave it alone.
C13_Witness ==
  /\ findSubmission(state.submissions, bob) # 0
  /\ handleSubmission(World, bob, <<"x">>, FALSE, now).st.submissions # state.submissions
  /\ handleSubmission(World, bob, <<"x">>, TRUE, now).st.submissions # state.submissions
  /\ \A text \in BadTexts, debugMode \in BOOLEAN :
       handleSubmission(World, bob, text, debugMode, now).st.submissions = state.submissions

\* C14: in normal mode a submission by a user who has one already (names
\* compared ignoring case) replaces the text and the timestamp of that
\* entry in place; the number of entries, every voter set and every other
\* entry stay as they were, and the user is in the entry's voter set.
C14_ResubmitReplacesInPlace ==
  \A user \in LedgerUsers, text \in GoodTexts :
    LET subs == state.submissions
        idx == findSubmission(subs, user)
        after == handleSubmission(World, user, text, FALSE, now).st.submissions
    IN idx # 0 =>
         /\ Len(after) = Len(subs)
         /\ after[idx] = [subs[idx] EXCEPT !.text = text, !.timestamp = now]
         /\ \A i \in 1..Len(subs) : i # idx => after[i] = subs[i]
         /\ \A i \in 1..Len(subs) : after[i].votes = subs[i].votes
         /\ toLowerCase(user) \in after[idx].votes

\* Ann's earlier submission has a vote of someone else, and a submission
\* under another spelling of her name would now replace its text.
C14_Witness ==
  LET idx == findSubmission(state.submissions, ANN)
  IN /\ idx # 0
     /\ state.submissions[idx].user = Ann
     /\ state.submissions[idx].timestamp < now
     /\ Cardinality(state.submissions[idx].votes) >= 2
     /\ handleSubmission(World, ANN, <<"r", "u", "n">>, FALSE, now).st.submissions[idx].text
          # state.submissions[idx].text

\* C15: with debug mode off, no two entries of the ledger have users that
\* are equal ignoring case, and the names in a voter set are normalized, so
\* that no two of them are equal ignoring case.
C15_OneEntryPerUser ==
  ~state.config.debugMode =>
    /\ \A i, j \in 1..Len(state.submissions) :
         toLowerCase(state.submissions[i].user) = toLowerCase(state.submissions[j].user)
           => i = j
    /\ \A i \in 1..Len(state.submissions) :
         \A u, v \in state.submissions[i].votes :
           /\ toLowerCase(u) = u
           /\ toLowerCase(u) = toLowerCase(v) => u = v

\* In normal mode Ann has submitted under both spellings of her name and
\* has voted for herself: one entry, holding the later text and her name
\* once, next to bob's.
C15_Witness ==
  /\ ~state.config.debugMode
  /\ Len(state.submissions) = 2
  /\ \E i \in 1..2 :
       /\ state.submissions[i].user = Ann
       /\ state.submissions[i].text = <<"r", "u", "n">>
       /\ state.submissions[i].votes = {toLowerCase(Ann), toLowerCase(cat)}

\* C16: in normal mode a second vote of the same voter (ignoring case) for
\* the same target leaves the ledger, and with it the target's voteCount,
\* exactly as the first vote left it.
C16_VoteIsIdempotent ==
  \A voter \in LedgerUsers, again \in LedgerUsers, target \in LedgerUsers :
    toLowerCase(voter) = toLowerCase(again) =>
      LET first == handleVote(World, voter, toLowerCase(target), FALSE)
          second == handleVote(first, again, toLowerCase(target), FALSE)
      IN second.st.submissions = first.st.submissions

\* In normal mode cat has voted for Ann's submission and a further vote of
\* cat for it arrives, while a first vote of bob would still be counted.
C16_Witness ==
  LET idx == findSubmission(state.submissions, Ann)
  IN /\ ~state.config.debugMode
     /\ idx # 0
     /\ toLowerCase(cat) \in state.submissions[idx].votes
     /\ toLowerCase(bob) \notin state.submissions[idx].votes
     /\ handleTwitchChatMessage(World, TwitchMessage(cat, voteForAnn, FALSE, FALSE), now).st.submissions
          = state.submissions
     /\ handleTwitchChatMessage(World, TwitchMessage(bob, voteForAnn, FALSE, FALSE), now).st.submissions
          # state.submissions

\* C17: in normal mode a vote whose voter is, ignoring case, the target
\* user does not change the vote count of that user's submission.
C17_SelfVoteCountsNothing ==
  \A voter \in LedgerUsers, target \in LedgerUsers :
    LET idx == findSubmission(state.submissions, target)
        after == handleVote(World, voter, toLowerCase(target), FALSE).st.submissions
    IN (toLowerCase(voter) = toLowerCase(target) /\ idx # 0) =>
         getVoteCount(after[idx]) = getVoteCount(state.submissions[idx])

\* In normal mode Ann's submission has her vote only: a vote of cat would
\* raise its count, her own "+1 @ann" does not.
C17_Witness ==
  LET idx == findSubmission(state.submissions, Ann)
  IN /\ ~state.config.debugMode
     /\ idx # 0
     /\ getVoteCount(state.submissions[idx]) = 1
     /\ getVoteCount(handleVote(World, cat, toLowerCase(Ann), FALSE).st.submissions[idx]) = 2
     /\ handleTwitchChatMessage(World, TwitchMessage(Ann, voteForAnn, FALSE, FALSE), now).st.submissions
          = state.submissions

CommandTexts ==
  { cmdVote, cmdTally,
    <<"!", "T", "a", "l", "l", "y">>, <<"!", "V", "O", "T", "E">> }
OtherTexts ==
  { <<"!", "v", "o", "t", "e", "s">>, <<"v", "o", "t", "e">>,
    <<"!", "t", "a", "l", "l", "y", " ", "n", "o", "w">>,
    submitGo, submitBlank, voteForAnn, voteForAnn2, hello }

\* The timers and the phase, as a chat line could change them.
PhaseAndTimers(w) ==
  [phase |-> w.st.phase,
   timeouts |-> w.timeouts,
   voteTimer |-> w.st.voteTimer,
   autoRepeatTimer |-> w.st.autoRepeatTimer,
   voteEndTime |-> w.st.voteEndTime,
   nextVoteStartTime |-> w.st.nextVoteStartTime,
   isPaused |-> w.st.isPaused,
   pausedVoteRemaining |-> w.st.pausedVoteRemaining,
   pausedAutoRepeatRemaining |-> w.st.pausedAutoRepeatRemaining]

\* C19: a chat line changes the phase or a timer only if it comes from
\* Twitch, from the broadcaster or a moderator, and its text is !vote or
\* !tally in any case. No line of an unprivileged Twitch user, no other line
\* of a privileged one and no YouTube line changes the phase or a timer.
C19_OnlyPrivilegedCommands ==
  /\ \A user \in {Ann, bob}, text \in CommandTexts \cup OtherTexts :
       PhaseAndTimers(handleTwitchChatMessage(
           World, TwitchMessage(user, text, FALSE, FALSE), now)) = PhaseAndTimers(World)
  /\ \A user \in {Ann, bob}, text \in OtherTexts, isBroadcaster \in BOOLEAN, isMod \in BOOLEAN :
       PhaseAndTimers(handleTwitchChatMessage(
           World, TwitchMessage(user, text, isBroadcaster, isMod), now)) = PhaseAndTimers(World)
  /\ \A user \in {Ann, bob}, text \in CommandTexts \cup OtherTexts :
       /\ PhaseAndTimers(handleYouTubeChatMessage(World, user, text, now)) = PhaseAndTimers(World)
       /\ PhaseAndTimers(onYouTubeChatMessage(World, user, text, now)) = PhaseAndTimers(World)

\* A vote is running on its timer: the moderator's "!Tally" would end it,
\* the same line without the badge, or from YouTube, does not.
C19_Witness ==
  /\ state.phase = "vote"
  /\ state.config.youtubeUrl
  /\ state.submissions # <<>>
  /\ \E tm \in timeouts : tm.id = state.voteTimer
  /\ handleTwitchChatMessage(
         World, TwitchMessage(bob, <<"!", "T", "a", "l", "l", "y">>, FALSE, TRUE), now).st.phase
       = "combine"
  /\ handleTwitchChatMessage(
         World, TwitchMessage(bob, <<"!", "T", "a", "l", "l", "y">>, FALSE, FALSE), now).st.phase
       = "vote"
  /\ onYouTubeChatMessage(World, bob, <<"!", "T", "a", "l", "l", "y">>, now).st.phase = "vote"

\* The chat lines that are dropped at the present ledger: talk and
\* commands without the badge, a submission whose text is empty or longer
\* than 200 characters, and a vote for a user who has no submission.
DroppedTexts ==
  { hello, cmdTally, cmdVote, <<">">>, submitBlank } \cup
  { text \in {voteForAnn, voteForAnn2, voteForBob, voteForDan} :
      \A i \in 1..Len(state.submissions) :
        toLowerCase(state.submissions[i].user) # toLowerCase(voteMatch(text)) }

\* The senders of a dropped line: anyone for the short ones, bob for the
\* submission of 201 characters.
DroppedLines ==
  (LedgerUsers \X DroppedTexts) \cup {<<bob, <<">", " ">> \o LongText>>}

\* C20: a dropped chat line leaves the ledger unchanged and sends no chat
\* message, from Twitch and from YouTube.
C20_DroppedInputIsSilent ==
  \A line \in DroppedLines :
    LET twitch == handleTwitchChatMessage(
                      World, TwitchMessage(line[1], line[2], FALSE, FALSE), now)
        youtube == onYouTubeChatMessage(World, line[1], line[2], now)
    IN /\ twitch.st.submissions = state.submissions
       /\ twitch.sent = sent
       /\ youtube.st.submissions = state.submissions
       /\ youtube.sent = sent

\* Ann has a submission and bob has none: cat's vote for bob is dropped
\* while cat's vote for Ann would be counted and a submission of bob kept.
C20_Witness ==
  /\ state.phase = "vote"
  /\ findSubmission(state.submissions, Ann) # 0
  /\ findSubmission(state.submissions, bob) = 0
  /\ voteForBob \in DroppedTexts
  /\ voteForAnn \notin DroppedTexts
  /\ handleTwitchChatMessage(World, TwitchMessage(cat, voteForAnn, FALSE, FALSE), now).st.submissions
       # state.submissions
  /\ handleTwitchChatMessage(World, TwitchMessage(bob, submitRun, FALSE, FALSE), now).st.submissions
       # state.submissions
  /\ handleTwitchChatMessage(World, TwitchMessage(cat, voteForBob, FALSE, FALSE), now).st.submissions
       = state.submissions

\* C21: when a callOpenRouter of a merge fails (the single call, a batch of
\* a fan-out or a call of a recursive round) the merge fails as a whole:
\* combineSubmissions is over, the last chat message is the error, no
\* winner and no merged text was announced and submitToAID was not called
\* in the cycle.
C21_FailedMergeSubmitsNothing ==
  "merge" \in task.failed =>
    /\ task.pc = "resume"
    /\ task.pending = {}
    /\ aidCalls = <<>>
    /\ sent # <<>>
    /\ sent[Len(sent)] = "error"
    /\ SentSet \cap {"winner", "combined", "action", "submitted"} = {}

\* A batch of a fan-out failed after another batch had returned its text.
FanOutFailed ==
  /\ "merge" \in task.failed
  /\ Len(task.round) > batchSize
  /\ \E k \in 1..Len(task.results) : task.results[k] # <<>>

\* The call of a recursive round, over the intermediate results of a
\* fan-out, failed.
C21_Witness ==
  /\ "merge" \in task.failed
  /\ Len(task.round) = MaxBatches
  /\ task.round[1].user = <<"B", "a", "t", "c", "h", "1">>
  /\ Len(state.submissions) > batchSize

\* C22: recursiveMerge with exactly one submission returns its text as it
\* is, with no trace (lastAICall is left alone) and without a call of
\* callOpenRouter; with two or more submissions it calls callOpenRouter, and
\* the result it returns comes with a trace holding that result.
C22_SingleSubmissionVerbatim ==
  /\ [](task.pc = "awaitFetch" =>
          \A lastAIOutput \in RecentActions \cup {<<>>} :
            LET r == recursiveMerge(World, state.submissions, lastAIOutput)
            IN IF Len(state.submissions) = 1
               THEN /\ r.task.pc = "awaitSubmit"
                    /\ r.aidCalls = Append(aidCalls, state.submissions[1].text)
                    /\ r.llmCalls = llmCalls
                    /\ r.task.prompts = <<>>
                    /\ r.st.lastAICall = state.lastAICall
               ELSE /\ r.task.pc = "awaitMerge"
                    /\ r.llmCalls > llmCalls
                    /\ r.task.prompts # <<>>
                    /\ r.aidCalls = aidCalls)
  /\ [][(task.pc = "awaitMerge" /\ task'.pc = "awaitSubmit") =>
          /\ state'.lastAICall # NoDebugInfo
          /\ state'.lastAICall.timestamp # NULL
          /\ aidCalls' = Append(aidCalls, state'.lastAICall.response)]_vars

\* The only submission of a blend cycle went to submitToAID as it was
\* written, with no language-model call and no trace.
C22_Witness ==
  /\ task.mode = "blend"
  /\ task.pc = "awaitSubmit"
  /\ Len(state.submissions) = 1
  /\ aidCalls = <<chatterText(1)>>
  /\ llmCalls = 0
  /\ state.lastAICall = NoDebugInfo

\* C23: the batch size is 320. A round of n >= 2 submissions issues one
\* call when n <= 320; otherwise it issues one call for each of the
\* ceil(n / 320) slices of the list, which are contiguous, in order and of
\* size 320 except possibly the last. All calls of a round are issued in
\* the step that starts it, and when the last of them has returned a single
\* further round runs on the intermediate results, one per batch in batch
\* order, with no most recent action.
C23_BatchSplitting ==
  /\ [](/\ batchSize = 320
        /\ task.pc = "awaitMerge" =>
             LET n == Len(task.round)
                 nb == Len(task.prompts)
             IN /\ n >= 2
                /\ nb = (IF n <= 320 THEN 1 ELSE (n + 319) \div 320)
                /\ Len(task.results) = nb
                /\ task.pending \subseteq 1..nb
                /\ \A k \in 1..nb :
                     /\ Len(task.prompts[k].submissionList)
                          = (IF k < nb THEN 320 ELSE n - 320 * (nb - 1))
                     /\ task.prompts[k].mostRecent = task.mostRecentAction
                /\ \A i \in 1..n :
                     task.prompts[((i - 1) \div 320) + 1].submissionList[((i - 1) % 320) + 1]
                       = <<task.round[i].text, task.round[i].user>>)
  /\ [][(task'.pc = "awaitMerge" /\ task'.round # task.round) =>
          /\ llmCalls' = llmCalls + Len(task'.prompts)
          /\ task'.pending = 1..Len(task'.prompts)
          /\ \A k \in 1..Len(task'.results) : task'.results[k] = <<>>]_vars
  /\ [][(task.pc = "awaitMerge" /\ task'.pc = "awaitMerge" /\ task'.round # task.round) =>
          /\ Len(task.round) > 320
          /\ Len(task'.round) = Len(task.prompts)
          /\ Len(task'.round) <= 320
          /\ task'.mostRecentAction = <<>>
          /\ \A j \in 1..Len(task'.round) :
               /\ task'.round[j].user = <<"B", "a", "t", "c", "h", ToString(j)>>
               /\ j \notin task.pending => task'.round[j].text = task.results[j]]_vars
  /\ [][(task.pc = "awaitMerge" /\ Len(task.round) <= 320) => task'.round = task.round]_vars

\* The largest ledger was split into MaxBatches batches, the last of 60,
\* every batch has returned and the round on the intermediate results is
\* waiting for its one call, after a most recent action had been found.
C23_Witness ==
  /\ task.pc = "awaitMerge"
  /\ Len(state.submissions) = (MaxBatches - 1) * batchSize + 60
  /\ Len(task.round) = MaxBatches
  /\ task.round[MaxBatches].user = <<"B", "a", "t", "c", "h", ToString(MaxBatches)>>
  /\ Len(task.prompts) = 1
  /\ task.pending = {1}
  /\ llmCalls = MaxBatches + 1

\* C24: recursiveMerge terminates when every call returns. A list longer
\* than a batch is split into fewer batches than it has submissions, every
\* round that follows another receives fewer submissions than that one, and
\* a merge that waits for its calls comes to an end.
C24_MergeTerminates ==
  /\ [](\A n \in (batchSize + 1)..(MaxBatches * batchSize) :
          batchCount(n) >= 2 /\ batchCount(n) < n)
  /\ [][(task.pc = "awaitMerge" /\ llmCalls' > llmCalls) =>
          /\ task'.pc = "awaitMerge"
          /\ Len(task'.round) < Len(task.round)
          /\ Len(task'.round) >= 2]_vars
  /\ (task.pc = "awaitMerge") ~> (task.pc \in {"awaitSubmit", "resume"})

\* The merge of the largest ledger has ended with a text after two rounds.
C24_Witness ==
  /\ task.pc = "awaitSubmit"
  /\ Len(state.submissions) = (MaxBatches - 1) * batchSize + 60
  /\ Len(task.round) = MaxBatches
  /\ llmCalls = MaxBatches + 1
  /\ task.pending = {}

\* C25: when combineAndSubmit() ends, after a success or after a failed
\* call, with auto-repeat configured and the session not paused, it leaves
\* the idle phase with an auto-repeat timer, and the callback of every
\* pending auto-repeat timer starts a vote phase with its timer. In a
\* session that is never paused every phase keeps what ends it: a vote its
\* timer until combine, a combine its task until idle, and idle its
\* auto-repeat timer until the next vote; so vote phases keep recurring.
C25_AutoRepeatRecurs ==
  /\ [](task.pc = "resume" =>
          LET r == combineAndSubmitResume(World, now)
          IN /\ r.st.phase = "idle"
             /\ (Truthy(state.config.autoRepeatCooldownSeconds) /\ ~state.isPaused) =>
                  \E tm \in r.timeouts :
                    /\ tm.callback = "autoRepeat"
                    /\ tm.id = r.st.autoRepeatTimer
                    /\ tm.at > now
                    /\ tm.at = r.st.nextVoteStartTime)
  /\ [](\A tm \in AutoRepeatTimers :
          LET r == autoRepeatCallback([World EXCEPT !.timeouts = @ \ {tm}], now)
          IN /\ r.st.phase = "vote"
             /\ \E vt \in r.timeouts : vt.callback = "handleEndVote" /\ vt.id = r.st.voteTimer)
  /\ [][state.phase = "vote" => (VoteTimers' # {} \/ state'.phase = "combine")]_vars
  /\ [][state.phase = "combine" => (task'.pc # "none" \/ state'.phase = "idle")]_vars
  /\ [][(state.phase = "combine" /\ state'.phase = "idle") => AutoRepeatTimers' # {}]_vars
  /\ [][AutoRepeatTimers # {} => (AutoRepeatTimers' # {} \/ state'.phase = "vote")]_vars

\* A cycle in which a call failed is about to end, with auto-repeat on, and
\* it is the cycle of a vote that the auto-repeat timer of an earlier cycle
\* started or could have started.
C25_Witness ==
  /\ task.pc = "resume"
  /\ task.failed # {}
  /\ Truthy(state.config.autoRepeatCooldownSeconds)
  /\ ~state.isPaused
  /\ now >= MIN_AUTO_REPEAT_SECONDS * 1000

\* The durations and cooldowns a configuration can ask for, below, at and
\* above the minimum.
VoteDurations == {3, MIN_VOTE_DURATION_SECONDS, 7}
Cooldowns == {10, MIN_AUTO_REPEAT_SECONDS, 30}

\* C26: a vote phase started at instant t with configured duration d has
\* its deadline, the displayed one and the one of its timer, at
\* t + max(d, 5) seconds; an auto-repeat scheduled afresh at t with cooldown
\* c has its deadline, displayed and of its timer, at t + max(c, 20) seconds.
C26_ClampedDeadlines ==
  /\ [](\A d \in VoteDurations :
          LET deadline == now + (IF d > 5 THEN d ELSE 5) * 1000
              r == handleStartVote([World EXCEPT !.st.config.voteDurationSeconds = d], now)
          IN state.phase = "idle" =>
               /\ r.st.phase = "vote"
               /\ r.st.voteEndTime = deadline
               /\ \E tm \in r.timeouts :
                    tm.id = r.st.voteTimer /\ tm.callback = "handleEndVote" /\ tm.at = deadline)
  /\ [](\A c \in Cooldowns :
          LET deadline == now + (IF c > 20 THEN c ELSE 20) * 1000
              w == [World EXCEPT !.st.config.autoRepeatCooldownSeconds = c]
              fresh == scheduleAutoRepeat(w, now)
              ended == combineAndSubmitResume(w, now)
          IN ~state.isPaused =>
               /\ fresh.st.nextVoteStartTime = deadline
               /\ \E tm \in fresh.timeouts :
                    tm.id = fresh.st.autoRepeatTimer /\ tm.callback = "autoRepeat" /\ tm.at = deadline
               /\ task.pc = "resume" =>
                    /\ ended.st.nextVoteStartTime = deadline
                    /\ \E tm \in ended.timeouts :
                         tm.id = ended.st.autoRepeatTimer /\ tm.at = deadline)
  /\ [][(state.phase # "vote" /\ state'.phase = "vote") =>
          LET d == state'.config.voteDurationSeconds
          IN /\ state'.voteEndTime = now + (IF d > 5 THEN d ELSE 5) * 1000
             /\ \E tm \in timeouts' :
                  tm.id = state'.voteTimer /\ tm.at = state'.voteEndTime]_vars

\* A vote with configured duration 3 was started late, 20 seconds or more
\* into the session, and ends 5 seconds after its start.
C26_Witness ==
  /\ state.phase = "vote"
  /\ state.config.voteDurationSeconds = 3
  /\ now >= MIN_AUTO_REPEAT_SECONDS * 1000
  /\ state.voteEndTime = now + MIN_VOTE_DURATION_SECONDS * 1000
  /\ \E tm \in timeouts : tm.id = state.voteTimer /\ tm.at = state.voteEndTime

\* The same users and texts in the same order, with other votes: nobody in
\* a voter set and a debug count of 7 on every submission.
Revoted(submissions) ==
  [i \in 1..Len(submissions) |->
     [submissions[i] EXCEPT !.votes = {}, !.debugVoteCount = 7]]

\* What a world shows to the collaborators and to the chat.
Outputs(w) ==
  [pc |-> w.task.pc, prompts |-> w.task.prompts, pending |-> w.task.pending,
   llmCalls |-> w.llmCalls, aidCalls |-> w.aidCalls, sent |-> w.sent]

\* C27: in blend mode the votes do not reach the outcome. Ending the vote
\* and running recursiveMerge on a ledger, and on the ledger with the same
\* users and texts but other voter sets and vote counts, issue the same
\* prompts and the same calls of submitToAID and send the same chat messages;
\* the prompts of a round hold texts and users only.
C27_BlendIgnoresVotes ==
  LET other == [World EXCEPT !.st.submissions = Revoted(@)]
  IN /\ (state.phase = "vote" /\ state.config.openRouterApiKey) =>
          Outputs(handleEndVote(World)) = Outputs(handleEndVote(other))
     /\ task.pc = "awaitFetch" =>
          \A lastAIOutput \in RecentActions \cup {<<>>} :
            Outputs(recursiveMerge(World, state.submissions, lastAIOutput))
              = Outputs(recursiveMerge(other, other.st.submissions, lastAIOutput))
     /\ (task.pc = "awaitMerge" /\ task.round = state.submissions) =>
          task.prompts = recursiveMerge(other, other.st.submissions,
                                        task.mostRecentAction).task.prompts

\* A blend of twelve submissions waits for its call; by votes the first
\* submission would win, with the other votes the last one would.
C27_Witness ==
  /\ task.mode = "blend"
  /\ task.pc = "awaitMerge"
  /\ Len(state.submissions) = 12
  /\ Len(task.prompts) = 1
  /\ tallyWinner(state.submissions).user = chatter(1)
  /\ tallyWinner(Revoted(state.submissions)).user = chatter(12)

\* C28: whenever the next event can be taken from the queue, the last
\* snapshot that was broadcast is the snapshot of the present state.
C28_SnapshotIsCurrent ==
  EventLoopFree => ui = getPublicState(state)

\* C29: in debug mode a vote of a voter who is already in the voter set of
\* the target sets the vote count of that submission to
\* max(previous vote count, size of the voter set) + 1.
C29_DebugRepeatCount ==
  \A voter \in LedgerUsers, target \in LedgerUsers :
    LET idx == findSubmission(state.submissions, target)
        before == state.submissions[idx]
        after == handleVote(World, voter, toLowerCase(target), TRUE).st.submissions[idx]
    IN (idx # 0 /\ toLowerCase(voter) \in before.votes) =>
         getVoteCount(after)
           = (IF getVoteCount(before) > Cardinality(before.votes)
              THEN getVoteCount(before)
              ELSE Cardinality(before.votes)) + 1

\* C30: a pending vote timer exists in the vote phase only, and its
\* callback moves the phase to combine and starts the merge in one step
\* with the ledger as it stands; from then on no step and no chat line
\* changes the ledger while the phase is combine.
C30_ExpiryClosesLedger ==
  /\ [](\A tm \in VoteTimers :
          LET r == handleEndVote([World EXCEPT !.timeouts = @ \ {tm}])
          IN /\ state.phase = "vote"
             /\ r.st.phase = "combine"
             /\ r.st.submissions = state.submissions
             /\ r.task.pc # "none"
             /\ r.st.voteTimer = NULL)
  /\ [](state.phase = "combine" =>
          /\ VoteTimers = {}
          /\ \A w \in ChatEvents : w.st.submissions = state.submissions)
  /\ [][state.phase = "combine" => state'.submissions = state.submissions]_vars

\* The vote ran to its deadline and was closed; the merge is reading a
\* ledger with a submission, and the chat goes on.
C30_Witness ==
  /\ state.phase = "combine"
  /\ state.voteEndTime <= now
  /\ task.pc \in {"awaitFetch", "awaitSubmit"}
  /\ state.submissions # <<>>
  /\ timeouts = {}
  /\ ChatEvents = {World}

\* The worlds left by one event handled now: a chat line from Twitch (the
\* commands of the broadcaster and of the moderator among them) or from
\* YouTube, a start or end request or a pause toggle from the popup.
EventOutcomes ==
  {handleTwitchChatMessage(World, m, now) : m \in TwitchMessages} \cup
  {onYouTubeChatMessage(World, m.user, m.text, now) : m \in YouTubeMessages} \cup
  {handleStartVote(World, now), handleEndVote(World), handleTogglePause(World, now)}

\* What a merge in flight and its continuations read and write, and the
\* timers.
MergeView(w) ==
  [submissions |-> w.st.submissions, lastAICall |-> w.st.lastAICall,
   phase |-> w.st.phase, task |-> w.task, llmCalls |-> w.llmCalls,
   aidCalls |-> w.aidCalls, sent |-> w.sent, timeouts |-> w.timeouts,
   voteTimer |-> w.st.voteTimer, autoRepeatTimer |-> w.st.autoRepeatTimer,
   voteEndTime |-> w.st.voteEndTime, nextVoteStartTime |-> w.st.nextVoteStartTime]

\* C31: while the phase is combine no chat line, start or end request or
\* pause toggle changes the ledger, creates or cancels a timer, or changes
\* anything the merge and its call of submitToAID depend on; no timer is
\* pending in the combine phase.
C31_MergeIsUndisturbed ==
  state.phase = "combine" =>
    /\ timeouts = {}
    /\ \A w \in EventOutcomes : MergeView(w) = MergeView(World)

\* A merge waits for its language-model call in a session that was paused,
\* and a toggle would resume it.
C31_Witness ==
  /\ state.phase = "combine"
  /\ task.pc = "awaitMerge"
  /\ state.isPaused
  /\ Truthy(state.config.autoRepeatCooldownSeconds)
  /\ ~handleTogglePause(World, now).st.isPaused
  /\ handleStartVote(World, now).st # state

\* C32: a resume in the idle phase with no remaining time stored schedules,
\* when a cooldown c is configured, one auto-repeat timer at the resume
\* instant + max(c, 20) seconds and shows that deadline; when no cooldown is
\* configured it schedules nothing.
C32_FreshAutoRepeatOnResume ==
  (state.isPaused /\ state.phase = "idle" /\ state.pausedAutoRepeatRemaining = NULL) =>
    /\ \A c \in Cooldowns :
         LET r == handleTogglePause(
                    [World EXCEPT !.st.config.autoRepeatCooldownSeconds = c], now)
             deadline == now + (IF c > 20 THEN c ELSE 20) * 1000
         IN /\ ~r.st.isPaused
            /\ r.st.nextVoteStartTime = deadline
            /\ \E tm \in r.timeouts :
                 /\ tm.callback = "autoRepeat"
                 /\ tm.id = r.st.autoRepeatTimer
                 /\ tm.at = deadline
                 /\ r.timeouts = timeouts \cup {tm}
                 /\ tm \notin timeouts
    /\ LET r == handleTogglePause(
                  [World EXCEPT !.st.config.autoRepeatCooldownSeconds = NULL], now)
       IN /\ ~r.st.isPaused
          /\ r.timeouts = timeouts
          /\ r.st.nextVoteStartTime = state.nextVoteStartTime
          /\ r.st.autoRepeatTimer = state.autoRepeatTimer

\* The session was paused during a combine, which ended without scheduling
\* the next vote; now, later, it is idle and paused with a cooldown of 10
\* configured and nothing stored.
C32_Witness ==
  /\ state.isPaused
  /\ state.phase = "idle"
  /\ state.pausedAutoRepeatRemaining = NULL
  /\ state.config.autoRepeatCooldownSeconds = 10
  /\ state.submissions # <<>>
  /\ now > 0
  /\ timeouts = {}
  /\ handleTogglePause(World, now).timeouts # {}

\* C33: when combineAndSubmit() returns the session to idle, right after
\* transitionToIdle and before scheduleAutoRepeat, no timer is pending and
\* the two timer handles, voteEndTime, nextVoteStartTime,
\* pausedVoteRemaining and pausedAutoRepeatRemaining are all null.
C33_IdleStartsClean ==
  task.pc = "resume" =>
    LET r == transitionToIdle(World)
    IN /\ r.st.phase = "idle"
       /\ r.timeouts = {}
       /\ r.st.voteTimer = NULL
       /\ r.st.autoRepeatTimer = NULL
       /\ r.st.voteEndTime = NULL
       /\ r.st.nextVoteStartTime = NULL
       /\ r.st.pausedVoteRemaining = NULL
       /\ r.st.pausedAutoRepeatRemaining = NULL

\* A cycle is about to return to idle with the deadline of its vote still
\* stored, later in a session on auto-repeat that is not paused.
C33_Witness ==
  /\ task.pc = "resume"
  /\ state.phase = "combine"
  /\ Truthy(state.voteEndTime)
  /\ Truthy(state.config.autoRepeatCooldownSeconds)
  /\ ~state.isPaused
  /\ now > 0

\* C34: in every state with phase vote and isPaused false a vote timer is
\* pending.
C34_UnpausedVoteHasTimer ==
  (state.phase = "vote" /\ ~state.isPaused) => VoteTimers # {}

\* C35: every vote phase can end without a manual end request: its timer is
\* pending, or the session is paused and the resume schedules the timer.
\* (In a state where neither holds no timer expiry and no resume can lead
\* the vote phase to combine.)
C35_VoteEndsByItself ==
  state.phase = "vote" =>
    \/ VoteTimers # {}
    \/ /\ state.isPaused
       /\ \E tm \in handleTogglePause(World, now).timeouts : tm.callback = "handleEndVote"

\* C36: while isPaused is true no timer is pending, neither the vote timer
\* nor the auto-repeat timer, whatever was toggled, started, ended or said
\* in the chat before.
C36_PausedHasNoTimer ==
  state.isPaused =>
    /\ timeouts = {}
    /\ state.voteTimer = NULL
    /\ state.autoRepeatTimer = NULL

\* A cycle ended while the session was paused: idle, a cooldown configured,
\* nothing stored, and no auto-repeat timer.
C36_Witness ==
  /\ state.isPaused
  /\ state.phase = "idle"
  /\ task.pc = "none"
  /\ Truthy(state.config.autoRepeatCooldownSeconds)
  /\ state.submissions # <<>>
  /\ state.pausedAutoRepeatRemaining = NULL
  /\ state.nextVoteStartTime = NULL

\* C37: a pending vote timer fires at voteEndTime and is the timer of the
\* stored handle; a pending auto-repeat timer fires at nextVoteStartTime
\* and is the timer of the stored handle; the snapshot shows the same two
\* deadlines.
C37_DeadlinesMatchTimers ==
  /\ \A tm \in VoteTimers :
       /\ tm.at = state.voteEndTime
       /\ tm.id = state.voteTimer
       /\ EventLoopFree => ui.voteEndTime = tm.at
  /\ \A tm \in AutoRepeatTimers :
       /\ tm.at = state.nextVoteStartTime
       /\ tm.id = state.autoRepeatTimer
       /\ EventLoopFree => ui.nextVoteStartTime = tm.at

\* A vote that holds a submission made at its start was paused and resumed
\* later: its timer and its displayed deadline moved together.
C37_Witness ==
  \E tm \in VoteTimers :
    /\ tm.at = state.voteEndTime
    /\ ui.voteEndTime = tm.at
    /\ \E i \in 1..Len(state.submissions) :
         state.submissions[i].timestamp
           + Max(state.config.voteDurationSeconds, MIN_VOTE_DURATION_SECONDS) * 1000 < tm.at

\* The worlds an end request leaves when it is handled now in world w: the
\* popup's END_VOTE, a broadcaster's or moderator's !tally, and the expiry
\* callback of a vote timer that is due.
EndRequests(w) ==
  {handleEndVote(w)} \cup
  {handleTwitchChatMessage(w, m, now) :
     m \in {x \in TwitchMessages : /\ toLowerCase(x.text) = cmdTally
                                   /\ (x.isBroadcaster \/ x.isMod)}} \cup
  {handleEndVote([w EXCEPT !.timeouts = @ \ {tm}]) :
     tm \in {x \in w.timeouts : x.callback = "handleEndVote" /\ x.at <= now}}

\* What a combine operation has done so far.
CombineOps(w) ==
  [task |-> w.task, llmCalls |-> w.llmCalls, aidCalls |-> w.aidCalls,
   sent |-> w.sent, phase |-> w.st.phase, submissions |-> w.st.submissions]

\* How often the end of a vote has been announced.
Closings(w) == Len(SelectSeq(w.sent, LAMBDA m : m = "votingClosed"))

\* C38: each vote phase starts exactly one combine operation. Of the end
\* requests that race in a vote phase (timer expiry, END_VOTE, privileged
\* !tally) the first performs vote->combine and starts the merge and
\* cancels the timer, the second changes nothing of it; a combine operation
\* is in flight exactly while the phase is combine, and every step into
\* combine starts one from none.
C38_OneCombinePerVote ==
  /\ [](task.pc # "none" <=> state.phase = "combine")
  /\ [](state.phase = "vote" =>
          \A first \in EndRequests(World) :
            /\ first.st.phase = "combine"
            /\ first.task.pc # "none"
            /\ Closings(first) = Closings(World) + 1
            /\ first.timeouts = {}
            /\ \A second \in EndRequests(first) : CombineOps(second) = CombineOps(first))
  /\ [][(state.phase # "combine" /\ state'.phase = "combine") =>
          /\ state.phase = "vote"
          /\ task.pc = "none"
          /\ task'.pc # "none"
          /\ Closings([sent |-> sent']) = Closings([sent |-> sent]) + 1]_vars

\* A vote with two submissions whose timer is due while the popup and a
\* moderator can end it too: three end requests race.
C38_Witness ==
  /\ state.phase = "vote"
  /\ Len(state.submissions) >= 2
  /\ \E tm \in VoteTimers : tm.at <= now
  /\ Cardinality(EndRequests(World)) >= 1
  /\ \A first \in EndRequests(World) : first.task.pc \in {"awaitSubmit", "awaitFetch"}

\* C39: a combine phase entered with an empty ledger calls neither the
\* language model nor submitToAID, sends the no-submissions notice after
\* the closing message, and its continuation returns to idle; this is the
\* case of every combine phase whose ledger is empty, with and without an
\* API key.
C39_EmptyLedgerCombine ==
  /\ (state.phase = "vote" /\ state.submissions = <<>>) =>
       \A first \in EndRequests(World) :
         /\ first.st.phase = "combine"
         /\ first.task.mode = "empty"
         /\ first.task.pc = "resume"
         /\ first.llmCalls = llmCalls
         /\ first.aidCalls = aidCalls
         /\ first.sent = sent \o <<"votingClosed", "noSubmissions">>
  /\ (state.phase = "combine" /\ state.submissions = <<>>) =>
       /\ task.mode = "empty"
       /\ task.pc = "resume"
       /\ llmCalls = 0
       /\ aidCalls = <<>>
       /\ Len(sent) >= 2
       /\ sent[Len(sent) - 1] = "votingClosed"
       /\ sent[Len(sent)] = "noSubmissions"
       /\ LET r == combineAndSubmitResume(World, now)
          IN /\ r.st.phase = "idle"
             /\ r.task.pc = "none"
             /\ r.aidCalls = <<>>
             /\ r.llmCalls = 0

\* A vote of a session with an API key and auto-repeat was ended with an
\* empty ledger; the notice is out and the continuation is pending.
C39_Witness ==
  /\ state.phase = "combine"
  /\ state.submissions = <<>>
  /\ task.mode = "empty"
  /\ state.config.openRouterApiKey
  /\ Truthy(state.config.autoRepeatCooldownSeconds)
  /\ "noSubmissions" \in SentSet

\* C40: in normal and in debug mode the vote count of every submission,
\* in the ledger and in the snapshot, is at least the size of its voter
\* set.
C40_CountCoversVoters ==
  \A i \in 1..Len(state.submissions) :
    /\ getVoteCount(state.submissions[i]) >= Cardinality(state.submissions[i].votes)
    /\ getPublicState(state).submissions[i].voteCount
         >= Cardinality(state.submissions[i].votes)

====
